---- MODULE Spec2Model ----
(***************************************************************************)
(* Model of the NSE analysis core: the indicator calculator                *)
(* (indicators/calculator.py), the row merger (data/fetcher.py) and the    *)
(* feasibility classifier (indicators/feasibility.py).                     *)
(*                                                                         *)
(* Python values are records [k, n, d, s]: k is the kind, n/d a rational   *)
(* in lowest terms (d > 0), s a string as a sequence of characters.        *)
(* A dict key that is missing is the value Absent; JSON null is None.      *)
(***************************************************************************)
EXTENDS Integers, Sequences, FiniteSets, TLC

VARIABLES
    pc,             \* position of the running operation
    rows,           \* calculate_batch: the input rows
    historical,     \* calculate_batch: the historical table (rows of a DataFrame)
    idx,            \* calculate_batch: index of the next row of the loop
    outcome,        \* outcome of the latest calculate_for_row call
    results,        \* calculate_batch: the list being built
    raised,         \* exception that left the running operation, or "none"
    analysis_rows,  \* merge_current_data: the input rows
    merged_rows,    \* merge_current_data: the returned list
    requirements,   \* feasibility: module global INDICATOR_REQUIREMENTS
    available,      \* feasibility: module global AVAILABLE_FIELD_HINTS
    catalog,        \* feasibility: the parsed indicator definitions
    records,        \* feasibility: the list analyze_feasibility returned
    summary,        \* feasibility: the dict summarize_feasibility returned
    validation,     \* outcome of validate_merged_rows
    batch,          \* outcome of a whole calculate_batch call
    calculated,     \* classifiers: the computed rows
    granularity,    \* which classifier or run: "daily", "weekly", "monthly"
    insights,       \* classifiers: the returned market summary
    lines,          \* parse_indicators: the lines of the indicators file
    grouped,        \* build_indicator_map: the returned dict
    max_retries,    \* SupabaseConnection._max_retries
    base_delay,     \* SupabaseConnection._base_delay_seconds
    attempt,        \* execute_with_retry: the loop variable
    invocations,    \* execute_with_retry: calls of operation() so far
    errors,         \* execute_with_retry: the list of error messages
    sleeps,         \* execute_with_retry: the time.sleep() calls so far
    retry_result,   \* execute_with_retry: the returned value
    completed,      \* a run: the steps that have returned, in order
    not_calculable, \* a run: the dict unavailable_requirements returned
    report,         \* a run: the report file of the run
    nested,         \* extraction: the row's value under the sub-mapping's name
    field,          \* extraction: the target field
    extracted       \* extraction: the value stored under the target field

calcVars == <<rows, historical, idx, outcome, results>>
mergeVars == <<analysis_rows, merged_rows>>
feasVars == <<requirements, available, catalog, records, summary>>
validVars == <<validation, batch>>
classVars == <<calculated, granularity, insights>>
parseVars == <<lines, grouped>>
retryVars == <<max_retries, base_delay, attempt, invocations, errors, sleeps,
               retry_result>>
pipeVars == <<completed, not_calculable, report>>
extractVars == <<nested, field, extracted>>

vars == <<pc, raised, calcVars, mergeVars, feasVars, validVars, classVars, parseVars, retryVars,
          pipeVars, extractVars>>

(***************************************************************************)
(* Bounds of the model.                                                    *)
(***************************************************************************)
MaxRows == 2        \* rows in one calculate_batch call
MaxPrice == 2       \* historical prices range over 0..MaxPrice
MaxSlack == 1       \* history lengths within MaxSlack of every gate
MaxMerge == 3       \* rows in one merge_current_data call
MaxCatalog == 2     \* entries in one indicator catalog
MaxOver == 1        \* classified batches within MaxOver rows of every top-N size
MaxLines == 3       \* lines in one indicators file
MaxRetryLimit == 3  \* max_retries ranges over 0..MaxRetryLimit
MaxFetch == 2       \* a fetch returns at most MaxFetch rows
MaxPayload == 2     \* a sub-mapping holds at most MaxPayload items

(***************************************************************************)
(* Python values.                                                          *)
(***************************************************************************)
RECURSIVE GCD(_, _)
GCD(a, b) == IF b = 0 THEN a ELSE GCD(b, a % b)

Abs(x) == IF x < 0 THEN -x ELSE x

PyVal(k, n, d, s) == [k |-> k, n |-> n, d |-> d, s |-> s]
Absent == PyVal("absent", 0, 1, <<>>)
None == PyVal("none", 0, 1, <<>>)
NaN == PyVal("nan", 0, 1, <<>>)
PosInf == PyVal("inf", 1, 1, <<>>)
NegInf == PyVal("inf", -1, 1, <<>>)
Str(s) == PyVal("str", 0, 1, s)

\* The rational n/d (d # 0) in lowest terms with a positive denominator.
Num(n, d) ==
    LET g == GCD(Abs(n), Abs(d))
        sg == IF d < 0 THEN -1 ELSE 1
    IN  PyVal("num", sg * (n \div g), sg * (d \div g), <<>>)

IntVal(n) == Num(n, 1)

IsNum(v) == v.k = "num"
IsNone(v) == v.k \in {"none", "absent"}

RAdd(a, b) == Num(a.n * b.d + b.n * a.d, a.d * b.d)
RSub(a, b) == Num(a.n * b.d - b.n * a.d, a.d * b.d)
RMul(a, b) == Num(a.n * b.n, a.d * b.d)
RDiv(a, b) == Num(a.n * b.d, a.d * b.n)
RLess(a, b) == a.n * b.d < b.n * a.d
RLeq(a, b) == a.n * b.d <= b.n * a.d

\* dict.get(key): a missing key reads as None.
Get(v) == IF v.k = "absent" THEN None ELSE v
\* dict.get(key, default)
GetOr(v, default) == IF v.k = "absent" THEN default ELSE v

\* Truth value of a Python object in `a or b`.
Truthy(v) ==
    CASE v.k \in {"none", "absent"} -> FALSE
      [] v.k = "str" -> v.s # <<>>
      [] v.k = "num" -> v.n # 0
      [] OTHER -> TRUE

PyOr(a, b) == IF Truthy(a) THEN a ELSE b

(***************************************************************************)
(* Strings.                                                                *)
(***************************************************************************)
IsSpace(c) == c \in {" ", "\t", "\n"}

RECURSIVE LStrip(_)
LStrip(s) == IF s # <<>> /\ IsSpace(Head(s)) THEN LStrip(Tail(s)) ELSE s

RECURSIVE RStrip(_)
RStrip(s) ==
    IF s # <<>> /\ IsSpace(s[Len(s)]) THEN RStrip(SubSeq(s, 1, Len(s) - 1)) ELSE s

\* str.strip()
Strip(s) == RStrip(LStrip(s))

\* str(value) for the values a ticker_symbol field holds: str(None) is "None".
PyStr(v) ==
    CASE v.k = "str" -> v.s
      [] v.k = "none" -> <<"N", "o", "n", "e">>

Digits == <<"0", "1", "2", "3", "4", "5", "6", "7", "8", "9">>
IsDigit(c) == \E i \in 1..10 : Digits[i] = c
DigitVal(c) == (CHOOSE i \in 1..10 : Digits[i] = c) - 1

RECURSIVE ParseDigits(_, _)
ParseDigits(s, acc) ==
    IF s = <<>> THEN acc ELSE ParseDigits(Tail(s), 10 * acc + DigitVal(Head(s)))

\* float(text) on the strings of the model: surrounding whitespace is ignored,
\* a run of digits is that number, "nan" is the float nan, anything else is a
\* ValueError (None here, the caller maps the exception to None).
ParseFloat(s) ==
    LET t == Strip(s)
    IN  IF t # <<>> /\ \A i \in 1..Len(t) : IsDigit(t[i]) THEN IntVal(ParseDigits(t, 0))
        ELSE IF t = <<"n", "a", "n">> THEN NaN
        ELSE None

to_float(value) ==
    IF IsNone(value) THEN None
    ELSE IF value.k = "str" THEN ParseFloat(value.s)
    ELSE value

(***************************************************************************)
(* IEEE arithmetic on num, inf and nan (numpy float64: a division by zero  *)
(* gives inf or nan, it does not raise).                                   *)
(***************************************************************************)
Sign(a) == IF a.n > 0 THEN 1 ELSE IF a.n < 0 THEN -1 ELSE 0
InfOf(sg) == IF sg < 0 THEN NegInf ELSE PosInf

XNeg(a) ==
    CASE a.k = "nan" -> NaN
      [] a.k = "inf" -> InfOf(-a.n)
      [] OTHER -> Num(-a.n, a.d)

XAdd(a, b) ==
    CASE a.k = "nan" \/ b.k = "nan" -> NaN
      [] a.k = "inf" /\ b.k = "inf" -> IF a.n = b.n THEN a ELSE NaN
      [] a.k = "inf" -> a
      [] b.k = "inf" -> b
      [] OTHER -> RAdd(a, b)

XSub(a, b) == XAdd(a, XNeg(b))

XMul(a, b) ==
    CASE a.k = "nan" \/ b.k = "nan" -> NaN
      [] a.k = "inf" \/ b.k = "inf" ->
            IF Sign(a) * Sign(b) = 0 THEN NaN ELSE InfOf(Sign(a) * Sign(b))
      [] OTHER -> RMul(a, b)

XDiv(a, b) ==
    CASE a.k = "nan" \/ b.k = "nan" -> NaN
      [] a.k = "inf" /\ b.k = "inf" -> NaN
      [] a.k = "inf" -> InfOf(IF Sign(b) < 0 THEN -a.n ELSE a.n)
      [] b.k = "inf" -> IntVal(0)
      [] b.n = 0 -> IF a.n = 0 THEN NaN ELSE InfOf(Sign(a))
      [] OTHER -> RDiv(a, b)

\* a > 0 and a == 0 on floats: every comparison with nan is false.
XPositive(a) == a.k \in {"num", "inf"} /\ a.n > 0
XIsZero(a) == a.k = "num" /\ a.n = 0

\* x.clip(lower=0.0) and x.clip(upper=0.0) on one element.
ClipLower0(a) == IF a.k \in {"num", "inf"} /\ a.n < 0 THEN IntVal(0) ELSE a
ClipUpper0(a) == IF a.k \in {"num", "inf"} /\ a.n > 0 THEN IntVal(0) ELSE a

RECURSIVE XSum(_, _, _)
\* s[lo] + ... + s[hi], summed by halves
XSum(s, lo, hi) ==
    IF lo > hi THEN IntVal(0)
    ELSE IF lo = hi THEN s[lo]
    ELSE LET mid == (lo + hi) \div 2
         IN  XAdd(XSum(s, lo, mid), XSum(s, mid + 1, hi))

\* Series.tail(n): the last n elements (all of them when there are fewer).
SeqTail(s, n) == SubSeq(s, IF Len(s) > n THEN Len(s) - n + 1 ELSE 1, Len(s))

\* Series.mean(): nan for an empty series.
Mean(s) == IF s = <<>> THEN NaN ELSE XDiv(XSum(s, 1, Len(s)), IntVal(Len(s)))

\* Series.max() and Series.min() of finite numbers: nan for an empty series.
SeriesMax(s) ==
    IF s = <<>> THEN NaN
    ELSE s[CHOOSE i \in 1..Len(s) : \A j \in 1..Len(s) : RLeq(s[j], s[i])]
SeriesMin(s) ==
    IF s = <<>> THEN NaN
    ELSE s[CHOOSE i \in 1..Len(s) : \A j \in 1..Len(s) : RLeq(s[i], s[j])]

(***************************************************************************)
(* indicators/calculator.py: calculate_for_row.                            *)
(* A row is a record of Python values; the historical table is a sequence  *)
(* of rows [ticker_symbol, date, stock_price] (the DataFrame's rows in     *)
(* storage order); an empty table is <<>>.                                 *)
(***************************************************************************)
WEEK_LOOKBACK == 5
MONTH_LOOKBACK == 22
MA20_WINDOW == 20
MA50_WINDOW == 50
MA200_WINDOW == 200
RSI_PERIOD == 14
TRADING_DAYS == 252

\* str(row.get("ticker_symbol", "")).strip()
ticker_of(row) == Strip(PyStr(GetOr(row.ticker_symbol, Str(<<>>))))

\* historical.loc[historical["ticker_symbol"] == ticker].sort_values("date")
history_of(ticker, hist) ==
    SortSeq(SelectSeq(hist, LAMBDA r : r.ticker_symbol = ticker),
            LAMBDA a, b : a.date < b.date)

\* pd.to_numeric(value, errors="coerce"): what does not parse becomes nan.
to_numeric(value) == LET f == to_float(value) IN IF IsNone(f) THEN NaN ELSE f

\* Series.dropna()
DropNa(s) == SelectSeq(s, LAMBDA v : v.k # "nan")

\* pd.to_numeric(history["stock_price"], errors="coerce").dropna()
history_prices_of(history) ==
    DropNa([i \in 1..Len(history) |-> to_numeric(history[i].stock_price)])

\* The row's own price, else the last historical point, else None.
latest_price_of(row, history) ==
    LET own == to_float(Get(row.stock_price))
    IN  IF IsNone(own) /\ history # <<>>
        THEN to_float(history[Len(history)].stock_price)
        ELSE own

\* company_name_of without the ticker as the last resort.
company_name_of_without_ticker(row, ticker) ==
    PyOr(Get(row.company_name), Get(row.stock_name))

\* row.get("company_name") or row.get("stock_name") or ticker
company_name_of(row, ticker) ==
    PyOr(PyOr(Get(row.company_name), Get(row.stock_name)), Str(ticker))

\* abs(x) < 0.0001
NearZero(x) == x.k = "num" /\ Abs(x.n) * 10000 < x.d

\* The 1-day change from stock_change; Absent when the branch is not taken.
primary_1d_pct(stock_change, latest_price) ==
    IF IsNone(stock_change) \/ IsNone(latest_price) THEN Absent
    ELSE LET prev_price == XSub(latest_price, stock_change)
         IN  IF XPositive(prev_price)
             THEN XMul(XDiv(stock_change, prev_price), IntVal(100))
             ELSE IF NearZero(stock_change) THEN IntVal(0)
             ELSE None

\* ((last / prices[-back]) - 1.0) * 100.0
pct_back(prices, back) ==
    XMul(XSub(XDiv(prices[Len(prices)], prices[Len(prices) - back + 1]), IntVal(1)),
         IntVal(100))

\* price_change_1d_pct taking the historical value whenever the history has
\* two prices, a value from stock_change included.
price_change_1d_pct_history_first(primary, history, prices) ==
    IF history # <<>> /\ Len(prices) >= 2
    THEN pct_back(prices, 2)
    ELSE primary

price_change_1d_pct(primary, history, prices) ==
    IF history # <<>> /\ IsNone(primary) /\ Len(prices) >= 2
    THEN pct_back(prices, 2)
    ELSE primary

\* price_change_1w_pct asking for more than WEEK_LOOKBACK prices.
price_change_1w_pct_strict_gate(history, prices) ==
    IF history # <<>> /\ Len(prices) > WEEK_LOOKBACK
    THEN pct_back(prices, WEEK_LOOKBACK) ELSE Absent

price_change_1w_pct(history, prices) ==
    IF history # <<>> /\ Len(prices) >= WEEK_LOOKBACK
    THEN pct_back(prices, WEEK_LOOKBACK) ELSE Absent

price_change_1m_pct(history, prices) ==
    IF history # <<>> /\ Len(prices) >= MONTH_LOOKBACK
    THEN pct_back(prices, MONTH_LOOKBACK) ELSE Absent

moving_average_20d(history, prices) ==
    IF history # <<>> /\ Len(prices) >= MONTH_LOOKBACK
    THEN Mean(SeqTail(prices, MA20_WINDOW)) ELSE Absent

\* moving_average_50d gated like the 20-day average, on MONTH_LOOKBACK points.
moving_average_50d_month_gate(history, prices) ==
    IF history # <<>> /\ Len(prices) >= MONTH_LOOKBACK
    THEN Mean(SeqTail(prices, MA50_WINDOW)) ELSE Absent

moving_average_50d(history, prices) ==
    IF history # <<>> /\ Len(prices) >= MA50_WINDOW
    THEN Mean(SeqTail(prices, MA50_WINDOW)) ELSE Absent

moving_average_200d(history, prices) ==
    IF history # <<>> /\ Len(prices) >= MA200_WINDOW
    THEN Mean(SeqTail(prices, MA200_WINDOW)) ELSE Absent

all_time_high(history, prices) == IF history # <<>> THEN SeriesMax(prices) ELSE Absent
all_time_low(history, prices) == IF history # <<>> THEN SeriesMin(prices) ELSE Absent

\* latest_price / all_time_high on Python floats raises on a zero divisor.
ath_division_raises(history, prices) ==
    history # <<>> /\ XIsZero(SeriesMax(prices))

distance_from_ath_pct(history, prices, latest_price) ==
    IF history # <<>>
    THEN XMul(XSub(XDiv(latest_price, SeriesMax(prices)), IntVal(1)), IntVal(100))
    ELSE Absent

\* history_prices.pct_change().dropna(): the first element of pct_change() is
\* nan, element i + 1 is prices[i + 1] / prices[i] - 1.
returns_of(prices) ==
    DropNa([i \in 1..(Len(prices) - 1) |->
               XSub(XDiv(prices[i + 1], prices[i]), IntVal(1))])

gains_of(returns) ==
    LET w == SeqTail(returns, RSI_PERIOD)
    IN  Mean([i \in 1..Len(w) |-> ClipLower0(w[i])])

losses_of(returns) ==
    LET w == SeqTail(returns, RSI_PERIOD)
    IN  XNeg(Mean([i \in 1..Len(w) |-> ClipUpper0(w[i])]))

rsi_14(history, prices) ==
    LET returns == returns_of(prices)
        gains == gains_of(returns)
        losses == losses_of(returns)
    IN  IF history # <<>> /\ Len(returns) >= RSI_PERIOD
        THEN IF XIsZero(losses) THEN IntVal(100)
             ELSE XSub(IntVal(100),
                       XDiv(IntVal(100), XAdd(IntVal(1), XDiv(gains, losses))))
        ELSE Absent

RECURSIVE DecimalDigits(_)
\* The decimal digits of a natural number.
DecimalDigits(n) ==
    IF n < 10 THEN <<Digits[n + 1]>>
    ELSE Append(DecimalDigits(n \div 10), Digits[(n % 10) + 1])

\* (end / start) ** (1.0 / cagr_years) - 1.0 is kept symbolic: kind "cagr"
\* with n/d the ratio end/start and s the digits of len(prices), of which
\* cagr_years is the 252nd part.
SymbolicCagr(ratio, points) == PyVal("cagr", ratio.n, ratio.d, DecimalDigits(points))

\* return_cagr without the test start > 0.
return_cagr_any_start(history, prices) ==
    IF history # <<>> /\ Len(prices) >= TRADING_DAYS
    THEN SymbolicCagr(XDiv(prices[Len(prices)], prices[1]), Len(prices))
    ELSE Absent

return_cagr(history, prices) ==
    IF history # <<>> /\ Len(prices) >= TRADING_DAYS /\ XPositive(prices[1])
    THEN SymbolicCagr(XDiv(prices[Len(prices)], prices[1]), Len(prices))
    ELSE Absent

\* _extract_metric(overview, ["marketCap", "market_cap", "Market Cap"]): the
\* rows of the model carry no overview_metrics, so overview is {} and no key
\* is found.
market_cap_of(row) == None

MetricKeys ==
    {"ticker_symbol", "company_name", "stock_price", "stock_change",
     "price_change_1d_pct", "price_change_1w_pct", "price_change_1m_pct",
     "moving_average_20d", "moving_average_50d", "moving_average_200d",
     "all_time_high", "all_time_low", "distance_from_ath_pct", "rsi_14",
     "return_cagr", "market_cap"}

NoMetrics == [key \in MetricKeys |-> Absent]

Raise(exc) == [exc |-> exc, metrics |-> NoMetrics]
Return(metrics) == [exc |-> "none", metrics |-> metrics]

calculate_for_row(row, hist) ==
    LET ticker == ticker_of(row)
        history == history_of(ticker, hist)
        latest_price == latest_price_of(row, history)
        stock_change == to_float(Get(row.stock_change))
        prices == history_prices_of(history)
    IN  IF ticker = <<>> THEN Raise("IndicatorCalculationError")
        \* an empty table is replaced by pd.DataFrame(), which has no "date"
        \* column for sort_values
        ELSE IF hist = <<>> THEN Raise("KeyError")
        ELSE IF IsNone(latest_price) THEN Raise("IndicatorCalculationError")
        ELSE IF ath_division_raises(history, prices) THEN Raise("ZeroDivisionError")
        ELSE Return(
            [ticker_symbol |-> Str(ticker),
             company_name |-> company_name_of(row, ticker),
             stock_price |-> latest_price,
             stock_change |-> stock_change,
             price_change_1d_pct |->
                 price_change_1d_pct(primary_1d_pct(stock_change, latest_price),
                                     history, prices),
             price_change_1w_pct |-> price_change_1w_pct(history, prices),
             price_change_1m_pct |-> price_change_1m_pct(history, prices),
             moving_average_20d |-> moving_average_20d(history, prices),
             moving_average_50d |-> moving_average_50d(history, prices),
             moving_average_200d |-> moving_average_200d(history, prices),
             all_time_high |-> all_time_high(history, prices),
             all_time_low |-> all_time_low(history, prices),
             distance_from_ath_pct |->
                 distance_from_ath_pct(history, prices, latest_price),
             rsi_14 |-> rsi_14(history, prices),
             return_cagr |-> return_cagr(history, prices),
             market_cap |-> market_cap_of(row)])

(***************************************************************************)
(* Inputs of the calculator: rows and historical tables.                   *)
(***************************************************************************)
TK == <<"K">>
TE == <<"E">>

MkRow(ticker, price, change, company, stock) ==
    [ticker_symbol |-> ticker, scraped_at |-> Absent, stock_price |-> price,
     stock_change |-> change, company_name |-> company, stock_name |-> stock]

TickerVals ==
    {Absent, None, Str(<<>>), Str(<<" ">>), Str(TK), Str(<<" ", "K", " ">>), Str(TE)}
PriceVals ==
    {Absent, None, IntVal(3), IntVal(0), Str(<<"4">>), Str(<<"x">>), Str(<<"n", "a", "n">>)}
ChangeVals == {Absent, None, IntVal(1), IntVal(-1), IntVal(0), IntVal(3), Str(<<"x">>)}
CompanyVals == {Absent, None, Str(<<>>), Str(<<"C", "o">>)}
StockVals == {Absent, Str(<<"S", "n">>)}

\* Rows of one calculate_for_row call: every ticker with and without a price,
\* every price with every change, every pair of names.
RowVals ==
    {MkRow(t, p, IntVal(1), Absent, Absent) : t \in TickerVals, p \in {IntVal(3), Absent}}
    \cup {MkRow(Str(TK), p, c, Absent, Absent) : p \in PriceVals, c \in ChangeVals}
    \cup {MkRow(Str(TK), IntVal(3), Absent, cn, sn) : cn \in CompanyVals, sn \in StockVals}

\* Rows of a batch: good rows of two tickers and rows that fail each way.
BatchRowVals ==
    {MkRow(t, p, IntVal(1), Absent, Absent) :
        t \in {Str(TK), Str(TE), None, Str(<<" ">>)}, p \in {IntVal(3), Absent}}

HistEntry(ticker, date, price) ==
    [ticker_symbol |-> ticker, date |-> date, stock_price |-> price]

\* n prices repeating the motif.
Series(motif, n) == [i \in 1..n |-> IntVal(motif[((i - 1) % Len(motif)) + 1])]

\* One entry without a usable price: a nan of a float column or a string of
\* an object column, as the oldest or as the latest point.
BadKinds == {"none", "first_nan", "last_nan", "last_str"}
WithBad(series, bad) ==
    CASE bad = "none" -> series
      [] bad = "first_nan" -> <<NaN>> \o series
      [] bad = "last_nan" -> Append(series, NaN)
      [] bad = "last_str" -> Append(series, Str(<<"x">>))

Dated(ticker, values) == [i \in 1..Len(values) |-> HistEntry(ticker, i, values[i])]
Reverse(s) == [i \in 1..Len(s) |-> s[Len(s) + 1 - i]]

\* The table: ticker K's points stored in date order or latest first, and
\* optionally one point of ticker E stored after them.
Table(n, motif, bad, order, other) ==
    LET k == Dated(TK, WithBad(Series(motif, n), bad))
        stored == IF order = "asc" THEN k ELSE Reverse(k)
    IN  IF other THEN stored \o <<HistEntry(TE, n + 5, IntVal(7))>> ELSE stored

Motifs ==
    {<<a>> : a \in 0..MaxPrice}
    \cup {<<a, b>> : a \in 0..MaxPrice, b \in 0..MaxPrice}
    \cup {[i \in 1..(MaxPrice + 1) |-> i - 1]}
    \cup {<<0, 0, 0, 1>>}

Gates ==
    {0, 2, WEEK_LOOKBACK, RSI_PERIOD + 1, MONTH_LOOKBACK, MA50_WINDOW, MA200_WINDOW,
     TRADING_DAYS}
HistLens == {g + e : g \in Gates, e \in (0 - MaxSlack)..MaxSlack} \cap Nat
SmallLens == 0..(2 + MaxSlack)

\* Short tables: the empty table, and every short series of ticker K in
\* either storage order beside a point of ticker E.
SmallTables ==
    {<<>>}
    \cup {Table(n, m, bad, order, TRUE) :
            n \in SmallLens, m \in Motifs, bad \in BadKinds, order \in {"asc", "desc"}}
BatchTables ==
    {Table(n, <<1, 2>>, "none", "desc", other) : n \in {0, 2}, other \in BOOLEAN}
\* Tables around every gate: every motif up to the month gate, the motifs of
\* LongMotifs (flat, starting at zero, ending at zero, ramp) beyond it.
LongMotifs == {<<1>>, <<0, 1>>, <<1, 0>>, [i \in 1..(MaxPrice + 1) |-> i - 1]}
HistTables ==
    {Table(n, m, bad, "desc", TRUE) :
        n \in {x \in HistLens : x <= MONTH_LOOKBACK + MaxSlack}, m \in Motifs,
        bad \in BadKinds}
    \cup {Table(n, m, bad, "desc", TRUE) :
            n \in {x \in HistLens : x > MONTH_LOOKBACK + MaxSlack}, m \in LongMotifs,
            bad \in BadKinds}
HistRows == {MkRow(Str(TK), p, IntVal(1), Absent, Absent) : p \in {IntVal(3), Absent}}

RECURSIVE SeqsUpTo(_, _)
\* All sequences over S of length at most n.
SeqsUpTo(S, n) ==
    IF n = 0 THEN {<<>>}
    ELSE LET shorter == SeqsUpTo(S, n - 1)
         IN  shorter \cup {Append(s, x) : s \in shorter, x \in S}

NoOutcome == [exc |-> "pending", metrics |-> NoMetrics]

(***************************************************************************)
(* indicators/calculator.py: calculate_batch, one loop iteration a step.   *)
(***************************************************************************)
\* The state of the operations a specification does not run.
CalcIdle ==
    /\ rows = <<>> /\ historical = <<>> /\ idx = 1 /\ outcome = NoOutcome
    /\ results = <<>>
MergeIdle == analysis_rows = <<>> /\ merged_rows = <<>>
FeasIdle ==
    /\ requirements = <<>> /\ available = <<>>
    /\ catalog = <<>> /\ records = <<>> /\ summary = <<>>
ValidIdle == validation = <<>> /\ batch = <<>>
ClassIdle == calculated = <<>> /\ granularity = "none" /\ insights = <<>>
ParseIdle == lines = <<>> /\ grouped = <<>>
PipeIdle == completed = <<>> /\ not_calculable = <<>> /\ report = "none"
ExtractIdle == nested = <<>> /\ field = "none" /\ extracted = <<>>
RetryIdle ==
    /\ max_retries = 0 /\ base_delay = <<>> /\ attempt = 0 /\ invocations = 0
    /\ errors = <<>> /\ sleeps = <<>> /\ retry_result = "none"

Init ==
    /\ pc = "calc"
    /\ \/ rows \in {<<r>> : r \in RowVals} /\ historical \in SmallTables
       \/ rows \in SeqsUpTo(BatchRowVals, MaxRows) /\ historical \in BatchTables
       \/ rows \in {<<r>> : r \in HistRows} /\ historical \in HistTables
    /\ idx = 1
    /\ outcome = NoOutcome
    /\ results = <<>>
    /\ raised = "none"
    /\ MergeIdle
    /\ FeasIdle
    /\ ValidIdle
    /\ ClassIdle
    /\ ParseIdle
    /\ RetryIdle
    /\ PipeIdle /\ ExtractIdle

\* for row in rows: try: results.append(calculate_for_row(row, historical))
\*                   except IndicatorCalculationError: continue
CalcRow ==
    /\ pc = "calc"
    /\ idx <= Len(rows)
    /\ LET o == calculate_for_row(rows[idx], historical)
       IN  /\ outcome' = o
           /\ results' = IF o.exc = "none" THEN Append(results, o.metrics) ELSE results
           /\ raised' = IF o.exc \in {"none", "IndicatorCalculationError"}
                        THEN "none" ELSE o.exc
           /\ pc' = IF o.exc \in {"none", "IndicatorCalculationError"}
                    THEN "calc" ELSE "raised"
    /\ idx' = idx + 1
    /\ UNCHANGED <<rows, historical, mergeVars, feasVars, validVars, classVars, parseVars, retryVars, pipeVars, extractVars>>

\* return results
CalcReturn ==
    /\ pc = "calc"
    /\ idx > Len(rows)
    /\ pc' = "returned"
    /\ UNCHANGED <<raised, calcVars, mergeVars, feasVars, validVars, classVars, parseVars, retryVars, pipeVars, extractVars>>

Next == CalcRow \/ CalcReturn

Spec == Init /\ [][Next]_vars

(***************************************************************************)
(* Claims about the calculator, read off the state after a CalcRow step:   *)
(* LastRow is the row the latest calculate_for_row call received.          *)
(***************************************************************************)
Called == pc \in {"calc", "returned", "raised"} /\ outcome.exc # "pending"
LastRow == rows[idx - 1]
Returned == Called /\ outcome.exc = "none"
Present(key) == outcome.metrics[key].k # "absent"

\* The claims' notions, stated on the inputs.
UsableTicker(row) ==
    row.ticker_symbol.k = "str" /\ \E i \in 1..Len(row.ticker_symbol.s) :
        ~IsSpace(row.ticker_symbol.s[i])
Parseable(v) == v.k \in {"num", "nan"} \/ (v.k = "str" /\ ~IsNone(ParseFloat(v.s)))
PointsOf(ticker, hist) == {i \in 1..Len(hist) : hist[i].ticker_symbol = ticker}
LatestPoint(ticker, hist) ==
    hist[CHOOSE i \in PointsOf(ticker, hist) :
            \A j \in PointsOf(ticker, hist) : hist[j].date <= hist[i].date]
NumericPointsOf(ticker, hist) ==
    {i \in PointsOf(ticker, hist) : to_numeric(hist[i].stock_price).k = "num"}
HasLatestPrice(row, hist) ==
    \/ Parseable(row.stock_price)
    \/ /\ PointsOf(Strip(row.ticker_symbol.s), hist) # {}
       /\ Parseable(LatestPoint(Strip(row.ticker_symbol.s), hist).stock_price)

\* The rows calculate_batch is to return: the computed rows of the rows whose
\* calculation succeeds, in input order.
ComputedRows(rs, hist) ==
    LET outs == SelectSeq([i \in 1..Len(rs) |-> calculate_for_row(rs[i], hist)],
                          LAMBDA o : o.exc = "none")
    IN  [i \in 1..Len(outs) |-> outs[i].metrics]

\* C1: calculate_batch never raises, whatever the rows and the table (an empty
\* table included), and returns exactly the computed rows of the rows whose
\* calculation succeeds, in input order.
C1_BatchNeverRaises ==
    pc \in {"calc", "returned", "raised"} =>
        /\ raised = "none"
        /\ pc # "raised"
        /\ pc = "returned" => results = ComputedRows(rows, historical)

\* C2: calculate_for_row fails with IndicatorCalculationError when the row has
\* no usable ticker (missing, null, empty, whitespace) or no latest price can
\* be determined; otherwise it returns a row whose stock_price is the row's own
\* price if parseable, else the latest point by date of the ticker's series.
C2_FailsOrReturnsLatestPrice ==
    Called =>
        IF ~UsableTicker(LastRow) \/ ~HasLatestPrice(LastRow, historical)
        THEN outcome.exc = "IndicatorCalculationError"
        ELSE /\ outcome.exc = "none"
             /\ outcome.metrics.stock_price =
                    IF Parseable(LastRow.stock_price)
                    THEN to_float(LastRow.stock_price)
                    ELSE to_float(LatestPoint(Strip(LastRow.ticker_symbol.s),
                                              historical).stock_price)

\* C3: with a usable ticker and a usable latest price calculate_for_row raises
\* no error, whatever the ticker's series (zero prices, an all-time high of 0,
\* too few points for a gate, non-numeric entries, no points at all).
C3_NoErrorOnNumericEdgeCases ==
    (Called /\ UsableTicker(LastRow) /\ HasLatestPrice(LastRow, historical)) =>
        outcome.exc = "none"

RECURSIVE WeightedCount(_, _, _, _)
\* The sum of prices[lo..hi], integer prices counted value by value up to v.
WeightedCount(prices, lo, hi, v) ==
    IF v = 0 THEN 0
    ELSE v * Cardinality({i \in lo..hi : prices[i] = IntVal(v)})
         + WeightedCount(prices, lo, hi, v - 1)

\* The mean of the last w of the ticker's numeric points in date order.
MeanOfLast(w) ==
    LET prices == history_prices_of(history_of(outcome.metrics.ticker_symbol.s, historical))
    IN  Num(WeightedCount(prices, Len(prices) - w + 1, Len(prices), MaxPrice), w)

TrailingReturns ==
    SeqTail(returns_of(history_prices_of(
                history_of(outcome.metrics.ticker_symbol.s, historical))), 14)
ReturnCount ==
    Len(returns_of(history_prices_of(
            history_of(outcome.metrics.ticker_symbol.s, historical))))

\* C7: rsi_14 is present iff the history yields at least 14 returns; when
\* present it lies in [0, 100] and is 100 exactly when the trailing 14 returns
\* hold no loss.
C7_RsiRangeAndSaturation ==
    Returned =>
        /\ Present("rsi_14") <=> ReturnCount >= 14
        /\ Present("rsi_14") =>
              LET rsi == outcome.metrics.rsi_14
              IN  /\ rsi.k = "num"
                  /\ RLeq(IntVal(0), rsi) /\ RLeq(rsi, IntVal(100))
                  /\ rsi = IntVal(100) <=>
                        \A i \in 1..Len(TrailingReturns) : TrailingReturns[i].n >= 0

(***************************************************************************)
(* data/fetcher.py: DataFetcher.merge_current_data.                        *)
(***************************************************************************)
\* Code points of the characters of the model's timestamps and tickers.
CodePoint(c) ==
    CASE IsDigit(c) -> 48 + DigitVal(c)
      [] c = "E" -> 69
      [] c = "K" -> 75
      [] c = "N" -> 78
      [] c = "e" -> 101
      [] c = "n" -> 110
      [] c = "o" -> 111
      [] OTHER -> 32

RECURSIVE StrLess(_, _)
\* a < b on Python strings: lexicographic by code point.
StrLess(a, b) ==
    IF b = <<>> THEN FALSE
    ELSE IF a = <<>> THEN TRUE
    ELSE IF Head(a) = Head(b) THEN StrLess(Tail(a), Tail(b))
    ELSE CodePoint(Head(a)) < CodePoint(Head(b))

\* key=lambda r: r.get("scraped_at", "")
scraped_at_key(row) == GetOr(row.scraped_at, Str(<<>>))

\* sorted() compares the keys with <: with two or more rows every key takes
\* part in a comparison, and None is not orderable against str or None.
sort_raises(rs) ==
    Len(rs) >= 2 /\ \E i \in 1..Len(rs) : scraped_at_key(rs[i]).k # "str"

\* sorted(analysis_rows, key=..., reverse=True): descending and stable.
sorted_rows(rs) ==
    SortSeq(rs, LAMBDA a, b : StrLess(scraped_at_key(b).s, scraped_at_key(a).s))

RECURSIVE first_per_ticker(_, _, _, _)
\* The loop over sorted_rows: by_ticker keeps the first row of each ticker,
\* in insertion order; rows with an empty ticker are skipped.
first_per_ticker(sorted, i, seen, acc) ==
    IF i > Len(sorted) THEN acc
    ELSE LET ticker == ticker_of(sorted[i])
         IN  IF ticker = <<>> \/ ticker \in seen
             THEN first_per_ticker(sorted, i + 1, seen, acc)
             ELSE first_per_ticker(sorted, i + 1, seen \cup {ticker},
                                   Append(acc, sorted[i]))

merge_current_data(rs) ==
    IF sort_raises(rs) THEN [exc |-> "TypeError", rows |-> <<>>]
    ELSE [exc |-> "none", rows |-> first_per_ticker(sorted_rows(rs), 1, {}, <<>>)]

MergeTickerVals ==
    {Absent, None, Str(<<" ">>), Str(TK), Str(<<" ", "K">>), Str(TE)}
MergeStampVals == {Absent, None, Str(<<"1">>), Str(<<"2">>)}
MergeRowVals ==
    {[MkRow(t, IntVal(3), Absent, Absent, Absent) EXCEPT !.scraped_at = ts] :
        t \in MergeTickerVals, ts \in MergeStampVals}

MergeInit ==
    /\ pc = "merge"
    /\ analysis_rows \in SeqsUpTo(MergeRowVals, MaxMerge)
    /\ merged_rows = <<>>
    /\ raised = "none"
    /\ CalcIdle
    /\ FeasIdle
    /\ ValidIdle
    /\ ClassIdle
    /\ ParseIdle
    /\ RetryIdle
    /\ PipeIdle /\ ExtractIdle

MergeCall ==
    /\ pc = "merge"
    /\ LET m == merge_current_data(analysis_rows)
       IN  /\ merged_rows' = m.rows
           /\ raised' = m.exc
           /\ pc' = IF m.exc = "none" THEN "merged" ELSE "merge_raised"
    /\ UNCHANGED <<calcVars, analysis_rows, feasVars, validVars, classVars, parseVars, retryVars, pipeVars, extractVars>>

MergeNext == MergeCall

MergeSpec == MergeInit /\ [][MergeNext]_vars

MergeDone == pc \in {"merged", "merge_raised"}

\* The distinct whitespace-trimmed non-empty tickers of the input.
InputTickers ==
    {Strip(analysis_rows[i].ticker_symbol.s) :
        i \in {j \in 1..Len(analysis_rows) : UsableTicker(analysis_rows[j])}}

\* C4: the tickers of the output rows are exactly the distinct trimmed
\* non-empty tickers of the input, one row per ticker; a row whose ticker is
\* missing, null, empty or blank contributes no output row and no error.
C4_OutputTickersAreInputTickers ==
    /\ pc = "merged" =>
          /\ \A i \in 1..Len(merged_rows) : UsableTicker(merged_rows[i])
          /\ {Strip(merged_rows[i].ticker_symbol.s) :
                 i \in {j \in 1..Len(merged_rows) : UsableTicker(merged_rows[j])}}
             = InputTickers
          /\ Len(merged_rows) = Cardinality(InputTickers)
    /\ (MergeDone /\ \E i \in 1..Len(analysis_rows) : ~UsableTicker(analysis_rows[i]))
          => raised = "none"

\* A timestamp's rank: missing (absent or null) is the lowest.
StampOf(row) == IF row.scraped_at.k = "str" THEN row.scraped_at.s ELSE <<>>

\* C5: for every ticker that occurs in several input rows the merge completes
\* without error, whatever mix of present and missing timestamps the rows
\* carry, and keeps one row of the ticker, with the greatest scraped_at among
\* the ticker's rows, a missing (absent or null) timestamp ranking lowest.
C5_LatestTimestampWins ==
    MergeDone =>
        \A t \in InputTickers :
            LET mine(rs) == {i \in 1..Len(rs) :
                              UsableTicker(rs[i]) /\ Strip(rs[i].ticker_symbol.s) = t}
            IN  Cardinality(mine(analysis_rows)) >= 2 =>
                  /\ raised = "none"
                  /\ Cardinality(mine(merged_rows)) = 1
                  /\ \A k \in mine(merged_rows) : \A i \in mine(analysis_rows) :
                        ~StrLess(StampOf(merged_rows[k]), StampOf(analysis_rows[i]))

(***************************************************************************)
(* indicators/feasibility.py.  The two tables are module globals, read at  *)
(* call time: the model keeps them in the state, as written in the source  *)
(* or with one entry changed.                                              *)
(***************************************************************************)
Requirement(fields, source) == [fields |-> fields, source |-> source]

INDICATOR_REQUIREMENTS ==
    [name \in {"Stock Price", "Price Change 1D (%)", "Volume", "Market Cap",
               "PE Ratio", "PB Ratio", "PS Ratio", "Dividend Yield", "52 Week Low",
               "52 Week High", "Price Change 1W", "Price Change 1M",
               "Price Change 3M", "Total Return 1M", "Total Return 1Y",
               "Total Return 6M", "Total Return YTD", "Return CAGR 1Y",
               "20-Day Moving Average", "50-Day Moving Average",
               "200-Day Moving Average", "Relative Strength Index (RSI)"} |->
        Requirement(
            CASE name = "Stock Price" -> {"stock_price"}
              [] name = "Price Change 1D (%)" -> {"stock_change"}
              [] name = "Volume" -> {"price_metrics.volume"}
              [] name = "Market Cap" -> {"overview_metrics.marketCap"}
              [] name = "PE Ratio" -> {"overview_metrics.pe_ratio"}
              [] name = "PB Ratio" -> {"overview_metrics.pb_ratio"}
              [] name = "PS Ratio" -> {"overview_metrics.ps_ratio"}
              [] name = "Dividend Yield" -> {"dividends_metrics.dividendYield"}
              [] name = "52 Week Low" -> {"price_metrics.low52"}
              [] name = "52 Week High" -> {"price_metrics.high52"}
              [] name = "Total Return 1M" -> {"performance_metrics.tr1m"}
              [] name = "Total Return 1Y" -> {"performance_metrics.tr1y"}
              [] name = "Total Return 6M" -> {"performance_metrics.tr6m"}
              [] name = "Total Return YTD" -> {"performance_metrics.trYTD"}
              [] OTHER -> {"historical_prices"},
            "stockanalysis_stocks")]

AVAILABLE_FIELD_HINTS ==
    [source \in {"stockanalysis_stocks"} |->
        {"ticker_symbol", "company_name", "rank", "stock_price", "stock_change",
         "scraped_at", "overview_metrics", "performance_metrics",
         "dividends_metrics", "price_metrics", "profile_metrics",
         "overview_metrics.marketCap", "overview_metrics.revenue",
         "overview_metrics.revenueGrowth", "overview_metrics.pe_ratio",
         "overview_metrics.pb_ratio", "overview_metrics.ps_ratio",
         "dividends_metrics.dividendYield", "dividends_metrics.dps",
         "dividends_metrics.payoutRatio", "price_metrics.low52",
         "price_metrics.high52", "price_metrics.volume", "performance_metrics.tr1m",
         "performance_metrics.tr1y", "performance_metrics.tr6m",
         "performance_metrics.trYTD", "historical_prices"}]

\* The field paths of the model in the order sorted() gives Python strings.
FieldOrder ==
    <<"company_name", "dividends_metrics", "dividends_metrics.dividendYield",
      "dividends_metrics.dps", "dividends_metrics.payoutRatio", "historical_prices",
      "overview_metrics", "overview_metrics.marketCap", "overview_metrics.pb_ratio",
      "overview_metrics.pe_ratio", "overview_metrics.ps_ratio",
      "overview_metrics.revenue", "overview_metrics.revenueGrowth",
      "performance_metrics", "performance_metrics.tr1m", "performance_metrics.tr1y",
      "performance_metrics.tr6m", "performance_metrics.trYTD", "price_metrics",
      "price_metrics.avgVolume", "price_metrics.high52", "price_metrics.low52",
      "price_metrics.volume", "profile_metrics", "rank", "scraped_at",
      "stock_change", "stock_price", "ticker_symbol">>

\* sorted(fields)
SortedFields(fields) == SelectSeq(FieldOrder, LAMBDA f : f \in fields)

\* AVAILABLE_FIELD_HINTS.get(source, set())
available_for(source) ==
    IF source \in DOMAIN available THEN available[source] ELSE {}

\* missing_fields reading the hints of the default source whatever req.source.
missing_fields_default_source(req) ==
    SortedFields({f \in req.fields : f \notin available_for("stockanalysis_stocks")})

\* sorted(field for field in required_fields if field not in available)
missing_fields(req) ==
    SortedFields({f \in req.fields : f \notin available_for(req.source)})

FeasibilityRecord(indicator, category, status, source, missing_data, notes) ==
    [indicator |-> indicator, category |-> category, status |-> status,
     source |-> source, missing_data |-> missing_data, notes |-> notes]

\* unmapped_record reporting the entry as partially calculable.
unmapped_record_partial(indicator) ==
    FeasibilityRecord(indicator.name, indicator.category, "partially_calculable",
                      "unknown", <<"explicit field mapping not yet available">>,
                      "Needs additional mapped fields or financial statements.")

\* The record of an indicator without an INDICATOR_REQUIREMENTS entry.
unmapped_record(indicator) ==
    FeasibilityRecord(indicator.name, indicator.category, "not_calculable", "unknown",
                      <<"explicit field mapping not yet available">>,
                      "Needs additional mapped fields or financial statements.")

\* The record of an indicator with the INDICATOR_REQUIREMENTS entry req.
mapped_record(indicator, req) ==
    LET missing == missing_fields(req)
    IN  IF missing # <<>>
        THEN FeasibilityRecord(indicator.name, indicator.category,
                               "partially_calculable", req.source, missing,
                               "Some required fields are missing.")
        ELSE FeasibilityRecord(indicator.name, indicator.category, "calculable",
                               req.source, missing, "Required fields available.")

feasibility_of(indicator) ==
    IF indicator.name \notin DOMAIN requirements THEN unmapped_record(indicator)
    ELSE mapped_record(indicator, requirements[indicator.name])

\* analyze_feasibility skipping the indicators without a requirements entry.
analyze_feasibility_mapped_only(indicators) ==
    LET mapped == SelectSeq(indicators, LAMBDA ind : ind.name \in DOMAIN requirements)
    IN  [i \in 1..Len(mapped) |-> feasibility_of(mapped[i])]

analyze_feasibility(indicators) ==
    [i \in 1..Len(indicators) |-> feasibility_of(indicators[i])]

RECURSIVE count_statuses(_, _, _)
\* for record in records: summary[record.status] = summary.get(record.status, 0) + 1
count_statuses(recs, i, acc) ==
    IF i > Len(recs) THEN acc
    ELSE LET st == recs[i].status
         IN  count_statuses(recs, i + 1,
                 IF st \in DOMAIN acc THEN [acc EXCEPT ![st] = @ + 1]
                 ELSE acc @@ (st :> 1))

summarize_feasibility(recs) ==
    count_statuses(recs, 1,
        [st \in {"calculable", "partially_calculable", "not_calculable"} |-> 0])

\* The tables as the source writes them, or with the entry of "Volume"
\* asking for a second field or naming a source without hints.
RequirementTables ==
    {INDICATOR_REQUIREMENTS,
     [INDICATOR_REQUIREMENTS EXCEPT !["Volume"] =
        Requirement({"price_metrics.volume", "price_metrics.avgVolume"},
                    "stockanalysis_stocks")],
     [INDICATOR_REQUIREMENTS EXCEPT !["Volume"] =
        Requirement({"price_metrics.volume", "price_metrics.avgVolume"},
                    "nse_prices")]}
AvailabilityTables ==
    {AVAILABLE_FIELD_HINTS,
     [AVAILABLE_FIELD_HINTS EXCEPT !["stockanalysis_stocks"] =
        @ \ {"stock_price", "price_metrics.volume"}]}

CatalogEntries ==
    {[name |-> n, category |-> c] :
        n \in {"Stock Price", "Volume", "EBITDA"},
        c \in {"Price and Volume", "Uncategorized"}}

FeasInit ==
    /\ pc = "feas"
    /\ requirements \in RequirementTables
    /\ available \in AvailabilityTables
    /\ catalog \in SeqsUpTo(CatalogEntries, MaxCatalog)
    /\ records = <<>>
    /\ summary = <<>>
    /\ raised = "none"
    /\ CalcIdle
    /\ MergeIdle
    /\ ValidIdle
    /\ ClassIdle
    /\ ParseIdle
    /\ RetryIdle
    /\ PipeIdle /\ ExtractIdle

Analyze ==
    /\ pc = "feas"
    /\ records' = analyze_feasibility(catalog)
    /\ pc' = "analyzed"
    /\ UNCHANGED <<raised, calcVars, mergeVars, requirements, available, catalog,
                   summary, validVars, classVars, parseVars, retryVars, pipeVars, extractVars>>

Summarize ==
    /\ pc = "analyzed"
    /\ summary' = summarize_feasibility(records)
    /\ pc' = "summarized"
    /\ UNCHANGED <<raised, calcVars, mergeVars, requirements, available, catalog,
                   records, validVars, classVars, parseVars, retryVars, pipeVars, extractVars>>

FeasNext == Analyze \/ Summarize

FeasSpec == FeasInit /\ [][FeasNext]_vars

Analyzed == pc \in {"analyzed", "summarized"}
StatusKeys == {"calculable", "partially_calculable", "not_calculable"}

RECURSIVE SumOver(_, _)
\* The sum of f over the keys in S.
SumOver(f, S) ==
    IF S = {} THEN 0
    ELSE LET k == CHOOSE x \in S : TRUE IN f[k] + SumOver(f, S \ {k})

\* C8: analyze_feasibility emits one record per catalog entry, in order, with
\* the entry's name and category; the counts of summarize_feasibility sum to
\* the number of entries, and the three status keys are always present.
C8_OneRecordPerEntryAndCountsSum ==
    /\ Analyzed =>
          /\ Len(records) = Len(catalog)
          /\ \A i \in 1..Len(catalog) :
                /\ records[i].indicator = catalog[i].name
                /\ records[i].category = catalog[i].category
    /\ pc = "summarized" =>
          /\ StatusKeys \subseteq DOMAIN summary
          /\ SumOver(summary, DOMAIN summary) = Len(catalog)
          /\ \A st \in StatusKeys :
                summary[st] = Cardinality({i \in 1..Len(records) : records[i].status = st})

\* C8 witness: a summarized catalog of two entries with different statuses.
C8_Witness ==
    /\ pc = "summarized"
    /\ Len(catalog) = 2
    /\ summary["calculable"] = 1
    /\ summary["not_calculable"] = 1

\* C9: an entry whose name has no requirements entry gets status
\* not_calculable, source "unknown" and the one-element missing_data
\* ["explicit field mapping not yet available"].
C9_UnmappedIsNotCalculable ==
    Analyzed =>
        \A i \in 1..Len(catalog) :
            catalog[i].name \notin DOMAIN requirements =>
                /\ records[i].status = "not_calculable"
                /\ records[i].source = "unknown"
                /\ records[i].missing_data = <<"explicit field mapping not yet available">>

\* C9 witness: an analyzed catalog with an unmapped entry beside a mapped one.
C9_Witness ==
    /\ Analyzed
    /\ \E i, j \in 1..Len(catalog) :
          /\ catalog[i].name \notin DOMAIN requirements
          /\ catalog[j].name \in DOMAIN requirements
          /\ records[i].status = "not_calculable"

\* C10: for an entry whose name is in the requirements table, missing_data is
\* exactly the required fields outside the availability set of its source (the
\* empty set for a source without hints); the status is calculable iff
\* missing_data is empty, partially_calculable otherwise, never not_calculable.
C10_MappedStatusFollowsMissing ==
    Analyzed =>
        \A i \in 1..Len(catalog) :
            catalog[i].name \in DOMAIN requirements =>
                LET req == requirements[catalog[i].name]
                    avail == IF req.source \in DOMAIN available
                             THEN available[req.source] ELSE {}
                    md == records[i].missing_data
                IN  /\ {md[k] : k \in 1..Len(md)} = req.fields \ avail
                    /\ Len(md) = Cardinality(req.fields \ avail)
                    /\ records[i].status = "calculable" <=> md = <<>>
                    /\ records[i].status = "partially_calculable" <=> md # <<>>
                    /\ records[i].status # "not_calculable"

\* C10 witness: a mapped entry all of whose required fields are missing, its
\* source having no hints, reported partially_calculable.
C10_Witness ==
    /\ Analyzed
    /\ \E i \in 1..Len(catalog) :
          /\ catalog[i].name \in DOMAIN requirements
          /\ requirements[catalog[i].name].source \notin DOMAIN available
          /\ Len(records[i].missing_data) = 2
          /\ records[i].status = "partially_calculable"

(***************************************************************************)
(* data/validator.py: validate_merged_rows, beside a whole calculate_batch *)
(* call on the same rows.                                                  *)
(***************************************************************************)
\* value in (None, "", "nan")
InMissingTuple(v) ==
    \/ v.k \in {"absent", "none"}
    \/ v.k = "str" /\ v.s \in {<<>>, <<"n", "a", "n">>}

ValidationSummary(total, valid, missing_ticker, missing_price) ==
    [total_rows |-> total, valid_rows |-> valid, invalid_rows |-> total - valid,
     missing_ticker |-> missing_ticker, missing_price |-> missing_price,
     completeness_ratio |-> IF total > 0 THEN Num(valid, total) ELSE IntVal(0)]

NoSummary == ValidationSummary(0, 0, 0, 0)

\* validate_merged_rows without the `continue` after missing_ticker += 1: a
\* row lacking both is counted under missing_price too.
validate_merged_rows_counting_both(rs) ==
    LET total == Len(rs)
        no_ticker == {i \in 1..total : InMissingTuple(rs[i].ticker_symbol)}
        no_price == {i \in 1..total : InMissingTuple(rs[i].stock_price)}
        valid == Cardinality((1..total) \ (no_ticker \cup no_price))
    IN  IF total > 0 /\ valid = 0
        THEN [exc |-> "DataValidationError", summary |-> NoSummary]
        ELSE [exc |-> "none",
              summary |-> ValidationSummary(total, valid, Cardinality(no_ticker),
                                            Cardinality(no_price))]

validate_merged_rows(rs) ==
    LET total == Len(rs)
        no_ticker == {i \in 1..total : InMissingTuple(rs[i].ticker_symbol)}
        no_price == {i \in 1..total : i \notin no_ticker /\ InMissingTuple(rs[i].stock_price)}
        valid == Cardinality((1..total) \ (no_ticker \cup no_price))
    IN  IF total > 0 /\ valid = 0
        THEN [exc |-> "DataValidationError", summary |-> NoSummary]
        ELSE [exc |-> "none",
              summary |-> ValidationSummary(total, valid, Cardinality(no_ticker),
                                            Cardinality(no_price))]

RECURSIVE batch_loop(_, _, _, _)
\* The loop of calculate_batch from row i on, acc the list built so far.
batch_loop(rs, hist, i, acc) ==
    IF i > Len(rs) THEN [exc |-> "none", rows |-> acc]
    ELSE LET o == calculate_for_row(rs[i], hist)
         IN  IF o.exc = "none" THEN batch_loop(rs, hist, i + 1, Append(acc, o.metrics))
             ELSE IF o.exc = "IndicatorCalculationError" THEN batch_loop(rs, hist, i + 1, acc)
             ELSE [exc |-> o.exc, rows |-> <<>>]

calculate_batch(rs, hist) == batch_loop(rs, hist, 1, <<>>)

\* Merged rows: every ticker with and without a price, every price of ticker K.
MergedRowVals ==
    {MkRow(t, p, Absent, Absent, Absent) :
        t \in {Absent, None, Str(<<>>), Str(<<" ">>), Str(<<"n", "a", "n">>), Str(TK)},
        p \in {IntVal(3), Absent}}
    \cup {MkRow(Str(TK), p, Absent, Absent, Absent) :
            p \in {None, Str(<<>>), Str(<<"n", "a", "n">>), Str(<<"x">>)}}

\* The empty table, a table without points of ticker K, tables with one point
\* of ticker K, with and without a price.
FallbackTables ==
    {<<>>, <<HistEntry(TE, 1, IntVal(7))>>,
     <<HistEntry(TK, 1, IntVal(2)), HistEntry(TE, 1, IntVal(7))>>,
     <<HistEntry(TK, 1, NaN), HistEntry(TE, 1, IntVal(7))>>}

Pending == [exc |-> "pending"]

ValidInit ==
    /\ pc = "valid"
    /\ rows \in SeqsUpTo(MergedRowVals, MaxRows)
    /\ historical \in FallbackTables
    /\ idx = 1 /\ outcome = NoOutcome /\ results = <<>>
    /\ validation = Pending
    /\ batch = Pending
    /\ raised = "none"
    /\ MergeIdle
    /\ FeasIdle
    /\ ClassIdle
    /\ ParseIdle
    /\ RetryIdle
    /\ PipeIdle /\ ExtractIdle

Validate ==
    /\ pc = "valid"
    /\ validation = Pending
    /\ validation' = validate_merged_rows(rows)
    /\ UNCHANGED <<pc, raised, calcVars, mergeVars, feasVars, batch, classVars, parseVars, retryVars, pipeVars, extractVars>>

CalculateBatch ==
    /\ pc = "valid"
    /\ batch = Pending
    /\ batch' = calculate_batch(rows, historical)
    /\ UNCHANGED <<pc, raised, calcVars, mergeVars, feasVars, validation, classVars, parseVars, retryVars, pipeVars, extractVars>>

ValidNext == Validate \/ CalculateBatch

ValidSpec == ValidInit /\ [][ValidNext]_vars

\* The claims' notions: a row lacks a ticker (a price) when the field is
\* missing, null, blank or the text "nan"; a valid row lacks neither.
Lacks(v) ==
    \/ v.k \in {"absent", "none"}
    \/ v.k = "str" /\ Strip(v.s) \in {<<>>, <<"n", "a", "n">>}
ValidRow(row) == ~Lacks(row.ticker_symbol) /\ ~Lacks(row.stock_price)
Validated == pc = "valid" /\ validation # Pending

\* C11: validate_merged_rows raises DataValidationError whenever the batch
\* contains zero valid rows (every row lacks a ticker or a price) and only
\* then; in every other case it returns a summary without raising.
C11_FatalIffZeroValidRows ==
    Validated =>
        IF \A i \in 1..Len(rows) : ~ValidRow(rows[i])
        THEN validation.exc = "DataValidationError"
        ELSE validation.exc = "none"

\* A row has a historical fallback price when the latest point of its ticker
\* carries a number.
HasFallbackPrice(row, hist) ==
    /\ row.ticker_symbol.k = "str"
    /\ PointsOf(Strip(row.ticker_symbol.s), hist) # {}
    /\ to_numeric(LatestPoint(Strip(row.ticker_symbol.s), hist).stock_price).k = "num"

\* C20: if every row of a non-empty batch lacks a price and its ticker has no
\* historical fallback price, calculate_batch returns the empty list without
\* raising, and validate_merged_rows on the same rows raises
\* DataValidationError.
C20_SilentSkipButFatalValidation ==
    (/\ pc = "valid" /\ validation # Pending /\ batch # Pending
     /\ rows # <<>>
     /\ \A i \in 1..Len(rows) :
            Lacks(rows[i].stock_price) /\ ~HasFallbackPrice(rows[i], historical))
    => /\ batch.exc = "none"
       /\ batch.rows = <<>>
       /\ validation.exc = "DataValidationError"

(***************************************************************************)
(* indicators/calculator.py: the daily, weekly and monthly classifiers.    *)
(* A frame is the list of computed rows; a key no row carries is a missing *)
(* column, a key some rows lack reads as nan in those rows.                *)
(***************************************************************************)
TOP_DAILY == 5
TOP_WEEKLY == 10
TOP_MONTHLY == 15

ChangeColumn(kind) ==
    CASE kind = "daily" -> "price_change_1d_pct"
      [] kind = "weekly" -> "price_change_1w_pct"
      [] kind = "monthly" -> "price_change_1m_pct"

\* TopCount with the daily size for every classifier.
TopCount_daily_everywhere(kind) == TOP_DAILY

TopCount(kind) ==
    CASE kind = "daily" -> TOP_DAILY
      [] kind = "weekly" -> TOP_WEEKLY
      [] kind = "monthly" -> TOP_MONTHLY

\* The columns head(N)[[...]] and tail(N)[[...]] select.
ShownColumns(kind) ==
    CASE kind = "daily" -> {"ticker_symbol", "price_change_1d_pct"}
      [] kind = "weekly" ->
            {"ticker_symbol", "company_name", "stock_price", "price_change_1w_pct"}
      [] kind = "monthly" ->
            {"ticker_symbol", "company_name", "stock_price", "market_cap",
             "price_change_1m_pct"}

HasColumn(frame, col) == \E i \in 1..Len(frame) : frame[i][col].k # "absent"

\* The selected columns the frame lacks: selecting them raises KeyError (the
\* change column is added as nan when the frame lacks it).
missing_columns(frame, kind) ==
    {c \in ShownColumns(kind) \ {ChangeColumn(kind)} : ~HasColumn(frame, c)}

\* pd.to_numeric(frame[column], errors="coerce")
change_values(frame, kind) ==
    [i \in 1..Len(frame) |-> to_numeric(frame[i][ChangeColumn(kind)])]

\* mean_change_of with np.mean over the column filled with 0.0 in place of
\* np.nanmean.
mean_change_of_filled(values) ==
    Mean([i \in 1..Len(values) |-> IF values[i].k = "nan" THEN IntVal(0) ELSE values[i]])

\* float(np.nanmean(values)) if values.notna().any() else 0.0
mean_change_of(values) ==
    IF \E i \in 1..Len(values) : values[i].k # "nan"
    THEN Mean(DropNa(values)) ELSE IntVal(0)

XNegative(a) == a.k \in {"num", "inf"} /\ a.n < 0

\* "bullish" if mean_change > 0 else "bearish" if mean_change < 0 else "flat"
market_trend_of(mean) ==
    IF XPositive(mean) THEN "bullish"
    ELSE IF XNegative(mean) THEN "bearish" ELSE "flat"

\* a < b on floats other than nan
ValueLess(a, b) ==
    CASE a.k = "inf" /\ b.k = "inf" -> a.n < b.n
      [] a.k = "inf" -> a.n < 0
      [] b.k = "inf" -> b.n > 0
      [] OTHER -> RLess(a, b)

\* a sorts strictly before b under ascending=False, na_position="last"
SortsBefore(a, b) == a.k # "nan" /\ (b.k = "nan" \/ ValueLess(b, a))

\* The order a stable sort gives: ties and nan rows keep the input order.
stable_order(values) ==
    SortSeq([i \in 1..Len(values) |-> i],
            LAMBDA a, b : SortsBefore(values[a], values[b]))

\* order is an outcome of sort_values: descending, the nan rows last in input
\* order.
IsSortOutcome(values, order) ==
    \A i, j \in 1..Len(order) :
        i < j => /\ ~SortsBefore(values[order[j]], values[order[i]])
                 /\ (values[order[i]].k = "nan" /\ values[order[j]].k = "nan")
                        => order[i] < order[j]

\* The rows whose change equals that of another row.
TiedRows(values) ==
    {i \in 1..Len(values) :
        values[i].k # "nan" /\ \E j \in 1..Len(values) : j # i /\ values[j] = values[i]}

\* sort_values uses the default quicksort, which is not stable: the order of
\* rows with equal change depends on the numpy build. Every order of the tied
\* rows is an outcome.
sort_outcomes(values) ==
    LET base == stable_order(values)
        tied == TiedRows(values)
        perms == {f \in [tied -> tied] : \A a, b \in tied : f[a] = f[b] => a = b}
    IN  {order \in {[i \in 1..Len(values) |->
                        IF base[i] \in tied THEN f[base[i]] ELSE base[i]] : f \in perms} :
            IsSortOutcome(values, order)}

\* fillna(0.0) on one cell
FillNa(v) == IF v.k \in {"absent", "none", "nan"} THEN IntVal(0) ELSE v

\* One record of ordered[[columns]].fillna(0.0).to_dict("records")
shown_record(frame, values, i, kind) ==
    [c \in MetricKeys |->
        IF c \notin ShownColumns(kind) THEN Absent
        ELSE IF c = ChangeColumn(kind) THEN FillNa(values[i])
        ELSE FillNa(frame[i][c])]

Insights(exc, trend, mean, gainers, losers) ==
    [exc |-> exc, market_trend |-> trend, mean_change_pct |-> mean,
     top_gainers |-> gainers, top_losers |-> losers]

\* classify_insights taking the losers from the worst row upwards, as the head
\* of an ascending sort would.
classify_insights_losers_ascending(frame, kind, order) ==
    IF frame = <<>> THEN Insights("none", "insufficient_data", Absent, <<>>, <<>>)
    ELSE IF missing_columns(frame, kind) # {}
    THEN Insights("KeyError", "none", Absent, <<>>, <<>>)
    ELSE LET values == change_values(frame, kind)
             mean == mean_change_of(values)
             n == Len(frame)
             top == IF n < TopCount(kind) THEN n ELSE TopCount(kind)
         IN  Insights("none", market_trend_of(mean), mean,
                      [k \in 1..top |-> shown_record(frame, values, order[k], kind)],
                      [k \in 1..top |->
                          shown_record(frame, values, order[n + 1 - k], kind)])

\* The body the three classifiers share, order being the outcome of
\* sort_values.
classify_insights(frame, kind, order) ==
    IF frame = <<>> THEN Insights("none", "insufficient_data", Absent, <<>>, <<>>)
    ELSE IF missing_columns(frame, kind) # {}
    THEN Insights("KeyError", "none", Absent, <<>>, <<>>)
    ELSE LET values == change_values(frame, kind)
             mean == mean_change_of(values)
             n == Len(frame)
             top == IF n < TopCount(kind) THEN n ELSE TopCount(kind)
         IN  Insights("none", market_trend_of(mean), mean,
                      [k \in 1..top |-> shown_record(frame, values, order[k], kind)],
                      [k \in 1..top |->
                          shown_record(frame, values, order[n - top + k], kind)])

classify_market_insights(frame, order) == classify_insights(frame, "daily", order)
classify_weekly_market_insights(frame, order) == classify_insights(frame, "weekly", order)
classify_monthly_market_insights(frame, order) == classify_insights(frame, "monthly", order)

\* Computed rows for the classifiers: row i carries the i-th label as its
\* ticker; the first rows take their change from a motif, the others from a
\* filler that repeats no value.
Labels ==
    <<"A", "B", "C", "D", "E", "F", "G", "H", "I", "J", "K", "L", "M", "N", "O",
      "P", "Q", "R", "S", "T", "U", "V", "W", "X", "Y", "Z", "a", "b", "c", "d">>

MkIndicator(i, change, kind) ==
    [NoMetrics EXCEPT !.ticker_symbol = Str(<<Labels[i]>>),
                      !.company_name = Str(<<"C", "o">>),
                      !.stock_price = IntVal(3),
                      !.market_cap = None,
                      ![ChangeColumn(kind)] = change]

PctVals ==
    {Absent, None, NaN, PosInf, NegInf, Str(<<"x">>), IntVal(0), IntVal(1),
     Num(11, 10), Num(-23, 10)}
PctMotifs ==
    {<<a>> : a \in PctVals} \cup {<<a, b>> : a \in PctVals, b \in PctVals}
    \cup {<<Num(11, 10), Num(-23, 10), Num(3, 10)>>,
          <<IntVal(1), IntVal(1), IntVal(1)>>,
          <<IntVal(1), IntVal(-1), IntVal(0)>>,
          <<PosInf, NegInf, IntVal(1)>>}
Fillers == {"up", "down", "gaps"}
Filler(i, fill) ==
    CASE fill = "up" -> IntVal(i + 1)
      [] fill = "down" -> IntVal(0 - (i + 1))
      [] fill = "gaps" -> IF i % 2 = 0 THEN None ELSE IntVal(i + 1)

ComputedBatch(kind, n, motif, fill) ==
    [i \in 1..n |->
        MkIndicator(i, IF i <= Len(motif) THEN motif[i] ELSE Filler(i, fill), kind)]

Granularities == {"daily", "weekly", "monthly"}
BatchLens ==
    (0..3) \cup ({TopCount(k) + e : k \in Granularities, e \in (0 - MaxOver)..MaxOver}
                 \cap Nat)
    \cup {2 * TopCount(k) : k \in Granularities}

ClassInit ==
    /\ pc = "classify"
    /\ granularity \in Granularities
    /\ calculated \in {ComputedBatch(granularity, n, m, f) :
                          n \in BatchLens, m \in PctMotifs, f \in Fillers}
    /\ insights = <<>>
    /\ raised = "none"
    /\ CalcIdle /\ MergeIdle /\ FeasIdle /\ ValidIdle /\ ParseIdle /\ RetryIdle /\ PipeIdle /\ ExtractIdle

Classify ==
    /\ pc = "classify"
    /\ \E order \in sort_outcomes(change_values(calculated, granularity)) :
          insights' =
              CASE granularity = "daily" -> classify_market_insights(calculated, order)
                [] granularity = "weekly" ->
                      classify_weekly_market_insights(calculated, order)
                [] granularity = "monthly" ->
                      classify_monthly_market_insights(calculated, order)
    /\ raised' = insights'.exc
    /\ pc' = "classified"
    /\ UNCHANGED <<calcVars, mergeVars, feasVars, validVars, calculated, granularity, parseVars, retryVars, pipeVars, extractVars>>

ClassNext == Classify

ClassSpec == ClassInit /\ [][ClassNext]_vars

\* The claims' notions: the raw change of a row, whether it is defined, the
\* mean over the defined changes, the rank of one row above another.
Classified == pc = "classified"
RawChange(i) == calculated[i][ChangeColumn(granularity)]
Defined(v) == v.k \in {"num", "inf"}
DefinedMean ==
    LET defined == SelectSeq([i \in 1..Len(calculated) |-> RawChange(i)], Defined)
    IN  IF defined = <<>> THEN IntVal(0)
        ELSE XDiv(XSum(defined, 1, Len(defined)), IntVal(Len(defined)))
RanksAbove(i, j) ==
    Defined(RawChange(i)) /\ (~Defined(RawChange(j)) \/ ValueLess(RawChange(j), RawChange(i)))

\* C14: an empty batch gives insufficient_data with empty top_gainers and
\* top_losers; for a non-empty batch the mean change is the mean over the rows
\* whose change is numeric (0.0 when there is none) and market_trend is bullish
\* if the mean is > 0, bearish if < 0, flat if exactly 0.
C14_TrendFollowsMeanOfDefined ==
    Classified =>
        IF calculated = <<>>
        THEN /\ insights.market_trend = "insufficient_data"
             /\ insights.top_gainers = <<>>
             /\ insights.top_losers = <<>>
        ELSE /\ insights.exc = "none"
             /\ insights.mean_change_pct = DefinedMean
             /\ XPositive(DefinedMean) => insights.market_trend = "bullish"
             /\ XNegative(DefinedMean) => insights.market_trend = "bearish"
             /\ XIsZero(DefinedMean) => insights.market_trend = "flat"

\* C14 witness: three rows with changes 1.1, -2.3, 0.3 classified bearish.
C14_Witness ==
    /\ Classified
    /\ Len(calculated) = 3
    /\ <<RawChange(1), RawChange(2), RawChange(3)>> =
          <<Num(11, 10), Num(-23, 10), Num(3, 10)>>
    /\ insights.mean_change_pct = Num(-3, 10)
    /\ insights.market_trend = "bearish"

\* The rows a list of shown records stands for, by ticker.
RowsShown(shown) ==
    [k \in 1..Len(shown) |->
        CHOOSE i \in 1..Len(calculated) :
            calculated[i].ticker_symbol = shown[k].ticker_symbol]
ShownChange(i) == IF Defined(RawChange(i)) THEN RawChange(i) ELSE IntVal(0)
TopSize ==
    LET size == CASE granularity = "daily" -> 5
                  [] granularity = "weekly" -> 10
                  [] granularity = "monthly" -> 15
    IN  IF Len(calculated) < size THEN Len(calculated) ELSE size

\* C15: for a non-empty batch top_gainers is the first N rows and top_losers
\* the last N rows of one ranking of all rows in descending order of the
\* change, rows with an undefined change last and shown with the value 0.0; N
\* is 5 (daily), 10 (weekly), 15 (monthly), or all rows when there are fewer.
\* One ranking exists iff both lists are ranked, no row outside the gainers
\* ranks above a gainer, no loser ranks above a row outside the losers, and the
\* two lists agree on the positions they share.
C15_TopListsOfOneRanking ==
    (Classified /\ calculated # <<>>) =>
        LET n == Len(calculated)
            g == RowsShown(insights.top_gainers)
            l == RowsShown(insights.top_losers)
            col == ChangeColumn(granularity)
        IN  /\ insights.exc = "none"
            /\ Len(g) = TopSize /\ Len(l) = TopSize
            /\ \A k \in 1..TopSize :
                  /\ insights.top_gainers[k][col] = ShownChange(g[k])
                  /\ insights.top_losers[k][col] = ShownChange(l[k])
            /\ \A a, b \in 1..TopSize :
                  a < b => ~RanksAbove(g[b], g[a]) /\ ~RanksAbove(l[b], l[a])
            /\ \A k \in 1..TopSize : \A i \in 1..n :
                  /\ (\A a \in 1..TopSize : g[a] # i) => ~RanksAbove(i, g[k])
                  /\ (\A a \in 1..TopSize : l[a] # i) => ~RanksAbove(l[k], i)
            /\ \A a, b \in 1..TopSize :
                  /\ a # b => g[a] # g[b] /\ l[a] # l[b]
                  /\ g[a] = l[b] <=> a = b + (n - TopSize)

\* C15 witness: the daily batch A = 1.1, B = -2.3, C = 0.3 with gainers A, C, B.
C15_Witness ==
    /\ Classified
    /\ granularity = "daily"
    /\ Len(calculated) = 3
    /\ <<RawChange(1), RawChange(2), RawChange(3)>> =
          <<Num(11, 10), Num(-23, 10), Num(3, 10)>>
    /\ RowsShown(insights.top_gainers) = <<1, 3, 2>>
    /\ RowsShown(insights.top_losers) = <<1, 3, 2>>

(***************************************************************************)
(* indicators/registry.py: parse_indicators.  A line of the file is its    *)
(* leading whitespace, its text and its trailing whitespace.               *)
(***************************************************************************)
SECTION_NAMES ==
    {"Basic Information", "Price and Volume", "Valuation Ratios",
     "Performance Metrics", "Price Levels", "Company Information",
     "Revenue and Growth", "Profitability", "Earnings", "Cash Flow",
     "Balance Sheet", "Margins and Ratios", "Debt and Leverage",
     "Efficiency and Turnover", "Dividends and Shareholder Returns",
     "Market and Technical Indicators", "Shares and Ownership",
     "Earnings and Dividend Dates", "Return on Investment",
     "Employee and Revenue Metrics", "Miscellaneous"}

SKIP_ITEMS == {"No.", "Symbol", "Company Name"}

FileLine(lead, text, trail) == [lead |-> lead, text |-> text, trail |-> trail]

\* line.strip(): the text between the leading and the trailing whitespace
line_strip(line) == line.text

IndicatorDefinition(name, category) == [name |-> name, category |-> category]

RECURSIVE parse_loop_emitting_headers(_, _, _, _)
\* parse_loop without the continue after a section header: the header is
\* emitted under its own section.
parse_loop_emitting_headers(ls, i, current_section, parsed) ==
    IF i > Len(ls) THEN parsed
    ELSE LET line == line_strip(ls[i])
         IN  IF line = "" THEN parse_loop_emitting_headers(ls, i + 1, current_section, parsed)
             ELSE IF line \in SECTION_NAMES
             THEN parse_loop_emitting_headers(ls, i + 1, line,
                      Append(parsed, IndicatorDefinition(line, line)))
             ELSE IF line \in SKIP_ITEMS
             THEN parse_loop_emitting_headers(ls, i + 1, current_section, parsed)
             ELSE parse_loop_emitting_headers(ls, i + 1, current_section,
                      Append(parsed, IndicatorDefinition(line, current_section)))

RECURSIVE parse_loop(_, _, _, _)
\* The loop of parse_indicators from line i on.
parse_loop(ls, i, current_section, parsed) ==
    IF i > Len(ls) THEN parsed
    ELSE LET line == line_strip(ls[i])
         IN  IF line = "" THEN parse_loop(ls, i + 1, current_section, parsed)
             ELSE IF line \in SECTION_NAMES THEN parse_loop(ls, i + 1, line, parsed)
             ELSE IF line \in SKIP_ITEMS THEN parse_loop(ls, i + 1, current_section, parsed)
             ELSE parse_loop(ls, i + 1, current_section,
                             Append(parsed, IndicatorDefinition(line, current_section)))

parse_indicators(ls) == parse_loop(ls, 1, "Uncategorized", <<>>)

RECURSIVE build_loop_replacing(_, _, _)
\* build_loop with out[category] = [name] in place of setdefault().append():
\* a category keeps its last name only.
build_loop_replacing(indicators, i, out) ==
    IF i > Len(indicators) THEN out
    ELSE LET ind == indicators[i]
         IN  build_loop_replacing(indicators, i + 1,
                 IF ind.category \in DOMAIN out
                 THEN [out EXCEPT ![ind.category] = <<ind.name>>]
                 ELSE out @@ (ind.category :> <<ind.name>>))

RECURSIVE build_loop(_, _, _)
\* for indicator in indicators:
\*     out.setdefault(indicator.category, []).append(indicator.name)
build_loop(indicators, i, out) ==
    IF i > Len(indicators) THEN out
    ELSE LET ind == indicators[i]
         IN  build_loop(indicators, i + 1,
                 IF ind.category \in DOMAIN out
                 THEN [out EXCEPT ![ind.category] = Append(@, ind.name)]
                 ELSE out @@ (ind.category :> <<ind.name>>))

build_indicator_map(indicators) == build_loop(indicators, 1, <<>>)

\* Lines: blank lines, headers, skip literals, mapped and unmapped indicator
\* names, a skip literal in another case; some with whitespace around them.
LineVals ==
    {FileLine(<<>>, t, <<>>) :
        t \in {"", "Price and Volume", "Valuation Ratios", "Symbol", "No.",
               "Stock Price", "Volume", "EBITDA", "symbol"}}
    \cup {FileLine(<<" ">>, t, <<"\t">>) : t \in {"", "Price and Volume", "Symbol", "Volume"}}

ParseInit ==
    /\ pc = "parse"
    /\ lines \in SeqsUpTo(LineVals, MaxLines)
    /\ grouped = <<>>
    /\ catalog = <<>>
    /\ requirements = <<>> /\ available = <<>> /\ records = <<>> /\ summary = <<>>
    /\ raised = "none"
    /\ CalcIdle /\ MergeIdle /\ ValidIdle /\ ClassIdle /\ RetryIdle /\ PipeIdle /\ ExtractIdle

Parse ==
    /\ pc = "parse"
    /\ catalog' = parse_indicators(lines)
    /\ pc' = "parsed"
    /\ UNCHANGED <<raised, calcVars, mergeVars, requirements, available, records,
                   summary, validVars, classVars, parseVars, retryVars, pipeVars, extractVars>>

BuildMap ==
    /\ pc = "parsed"
    /\ grouped' = build_indicator_map(catalog)
    /\ pc' = "mapped"
    /\ UNCHANGED <<raised, calcVars, mergeVars, feasVars, validVars, classVars, lines,
                   retryVars, pipeVars, extractVars>>

ParseNext == Parse \/ BuildMap

ParseSpec == ParseInit /\ [][ParseNext]_vars

\* The claim's notions: the lines that are to be emitted, and the header in
\* force at a line.
Parsed == pc = "parsed"
IsHeader(i) == lines[i].text \in SECTION_NAMES
Emitted(i) == lines[i].text # "" /\ ~IsHeader(i) /\ lines[i].text \notin SKIP_ITEMS
EmittedLines == SelectSeq([i \in 1..Len(lines) |-> i], Emitted)
CategoryAt(i) ==
    IF \E j \in 1..(i - 1) : IsHeader(j)
    THEN lines[CHOOSE j \in 1..(i - 1) :
                  IsHeader(j) /\ \A k \in (j + 1)..(i - 1) : ~IsHeader(k)].text
    ELSE "Uncategorized"

\* C19: parse_indicators fails on no text and emits, in line order, exactly
\* one IndicatorDefinition for every line that is non-blank, is no section
\* header and is no skip literal; the category of each is the latest section
\* header above its line, or "Uncategorized" when there is none; header lines
\* and skip lines are never emitted.
C19_OneDefinitionPerIndicatorLine ==
    Parsed =>
        /\ raised = "none"
        /\ Len(catalog) = Len(EmittedLines)
        /\ \A k \in 1..Len(catalog) :
              /\ catalog[k].name = lines[EmittedLines[k]].text
              /\ catalog[k].category = CategoryAt(EmittedLines[k])
              /\ catalog[k].name \notin SECTION_NAMES \cup SKIP_ITEMS

\* C19 witness: an indicator line before any header, then a header, then an
\* indicator line under it.
C19_Witness ==
    /\ Parsed
    /\ Len(lines) = 3
    /\ Len(catalog) = 2
    /\ catalog[1].category = "Uncategorized"
    /\ catalog[2].category = "Price and Volume"
    /\ IsHeader(2)

(***************************************************************************)
(* database/connection.py: SupabaseConnection.execute_with_retry, one      *)
(* iteration of the loop a step.                                           *)
(***************************************************************************)
RECURSIVE Pow2(_)
Pow2(k) == IF k <= 0 THEN 1 ELSE 2 * Pow2(k - 1)

\* backoff_delay with the exponent one too high: base * 2 ** attempt.
backoff_delay_from_two(base, k) == RMul(base, IntVal(Pow2(k)))

\* self._base_delay_seconds * (2 ** (attempt - 1))
backoff_delay(base, k) == RMul(base, IntVal(Pow2(k - 1)))

\* random.uniform(0.0, 0.25): the ends and a value between them
JitterVals == {IntVal(0), Num(1, 8), Num(1, 4)}

RetryInit ==
    /\ pc = "retry"
    /\ max_retries \in 0..MaxRetryLimit
    /\ base_delay \in {IntVal(0), Num(3, 4), IntVal(1)}
    /\ attempt = 1
    /\ invocations = 0
    /\ errors = <<>>
    /\ sleeps = <<>>
    /\ retry_result = "none"
    /\ raised = "none"
    /\ CalcIdle /\ MergeIdle /\ FeasIdle /\ ValidIdle /\ ClassIdle /\ ParseIdle
    /\ PipeIdle /\ ExtractIdle

\* result = operation(); return result
InvokeSucceeds ==
    /\ pc = "retry"
    /\ attempt <= max_retries
    /\ invocations' = invocations + 1
    /\ retry_result' = "result"
    /\ pc' = "retry_returned"
    /\ UNCHANGED <<raised, calcVars, mergeVars, feasVars, validVars, classVars,
                   parseVars, max_retries, base_delay, attempt, errors, sleeps, pipeVars, extractVars>>

\* operation() raises an Exception: the error is recorded, and the loop breaks
\* on the last attempt or sleeps and goes on.
InvokeFails ==
    /\ pc = "retry"
    /\ attempt <= max_retries
    /\ invocations' = invocations + 1
    /\ errors' = Append(errors, "Exception")
    /\ IF attempt >= max_retries
       THEN /\ raised' = "DatabaseConnectionError"
            /\ pc' = "retry_raised"
            /\ UNCHANGED <<attempt, sleeps>>
       ELSE /\ \E jitter \in JitterVals :
                  sleeps' = Append(sleeps, RAdd(backoff_delay(base_delay, attempt), jitter))
            /\ attempt' = attempt + 1
            /\ UNCHANGED <<pc, raised>>
    /\ UNCHANGED <<calcVars, mergeVars, feasVars, validVars, classVars, parseVars,
                   max_retries, base_delay, retry_result, pipeVars, extractVars>>

\* operation() raises a BaseException that is no Exception (KeyboardInterrupt):
\* `except Exception` does not catch it.
InvokeInterrupted ==
    /\ pc = "retry"
    /\ attempt <= max_retries
    /\ invocations' = invocations + 1
    /\ raised' = "KeyboardInterrupt"
    /\ pc' = "retry_raised"
    /\ UNCHANGED <<calcVars, mergeVars, feasVars, validVars, classVars, parseVars,
                   max_retries, base_delay, attempt, errors, sleeps, retry_result, pipeVars, extractVars>>

\* range(1, max_retries + 1) is exhausted without a break (max_retries < 1)
LoopExhausted ==
    /\ pc = "retry"
    /\ attempt > max_retries
    /\ raised' = "DatabaseConnectionError"
    /\ pc' = "retry_raised"
    /\ UNCHANGED <<calcVars, mergeVars, feasVars, validVars, classVars, parseVars,
                   retryVars, pipeVars, extractVars>>

RetryNext == InvokeSucceeds \/ InvokeFails \/ InvokeInterrupted \/ LoopExhausted

RetrySpec == RetryInit /\ [][RetryNext]_vars

RetryCall == pc \in {"retry", "retry_returned", "retry_raised"}

\* C18: execute_with_retry invokes the operation at most max_retries times
\* and always goes on to an end; it returns the result of the first
\* invocation that succeeds and invokes nothing after it; after max_retries
\* failed invocations in a row it raises DatabaseConnectionError; it waits
\* once after every failed attempt but the last, the wait after attempt k
\* being base_delay * 2^(k-1) plus a jitter between 0 and 0.25 s.
C18_BoundedRetryWithBackoff ==
    RetryCall =>
        /\ invocations <= max_retries
        /\ pc = "retry" => ENABLED RetryNext
        /\ pc # "retry" => ~ENABLED RetryNext
        /\ pc = "retry_returned" =>
              /\ retry_result = "result" /\ raised = "none"
              /\ invocations = Len(errors) + 1
        /\ (max_retries > 0 /\ Len(errors) = max_retries) =>
              /\ pc = "retry_raised" /\ raised = "DatabaseConnectionError"
              /\ Len(sleeps) = max_retries - 1
        /\ Len(errors) < max_retries => Len(sleeps) = Len(errors)
        /\ \A k \in 1..Len(sleeps) :
              LET jitter == RSub(sleeps[k], RMul(base_delay, IntVal(2 ^ (k - 1))))
              IN  RLeq(IntVal(0), jitter) /\ RLeq(jitter, Num(1, 4))

\* C18 witness: three failed attempts with the default delay of 0.75 s, the
\* waits 0.75 s and 1.5 s plus the largest jitter, then the error.
C18_Witness ==
    /\ pc = "retry_raised"
    /\ raised = "DatabaseConnectionError"
    /\ max_retries = 3
    /\ invocations = 3
    /\ sleeps = <<IntVal(1), Num(7, 4)>>

(***************************************************************************)
(* cli.py: run_daily_pipeline, generate_weekly_report and                  *)
(* generate_monthly_report, one call of the function body a step;          *)
(* data/fetcher.py: load_historical_from_supabase;                         *)
(* reports/generator.py: the report writers.                               *)
(***************************************************************************)
\* The steps of a run with the report written before the merged rows are
\* validated.
steps_of_report_before_validation(kind) ==
    IF kind = "daily"
    THEN <<"fetch", "merge", "write", "validate", "load_historical", "calculate",
           "parse", "analyze", "summarize", "unavailable", "classify">>
    ELSE <<"fetch", "merge", "write", "load_historical", "calculate", "classify">>

\* The calls of a run, in the order of the function body.
steps_of(kind) ==
    IF kind = "daily"
    THEN <<"fetch", "merge", "validate", "load_historical", "calculate", "parse",
           "analyze", "summarize", "unavailable", "classify", "write">>
    ELSE <<"fetch", "merge", "load_historical", "calculate", "classify", "write">>

step_after(kind, step) ==
    LET steps == steps_of(kind)
        i == CHOOSE j \in 1..Len(steps) : steps[j] = step
    IN  IF i = Len(steps) THEN "done" ELSE steps[i + 1]

\* An entry of a row's price_history list, and the list itself.
PriceEntry(date, price, stock_price) ==
    [date |-> date, scraped_at |-> Absent, timestamp |-> Absent,
     price |-> price, stock_price |-> stock_price]
PriceHistory(items) == [k |-> "list", items |-> items]

\* entry.get("date") or entry.get("scraped_at") or entry.get("timestamp")
entry_date_of(entry) ==
    PyOr(PyOr(Get(entry.date), Get(entry.scraped_at)), Get(entry.timestamp))
\* entry.get("price") or entry.get("stock_price")
entry_price_of(entry) == PyOr(Get(entry.price), Get(entry.stock_price))

\* The rows historical_data takes from the price_history of one merged row.
price_history_rows(row) ==
    IF row.price_history.k # "list" THEN <<>>
    ELSE LET kept == SelectSeq(row.price_history.items,
                         LAMBDA e : Truthy(entry_date_of(e)) /\ ~IsNone(entry_price_of(e)))
         IN  [i \in 1..Len(kept) |->
                 HistEntry(ticker_of(row), entry_date_of(kept[i]).n,
                           entry_price_of(kept[i]))]

RECURSIVE historical_data_of(_, _)
historical_data_of(merged, i) ==
    IF i > Len(merged) THEN <<>>
    ELSE price_history_rows(merged[i]) \o historical_data_of(merged, i + 1)

\* The frame built from historical_data: prices made numeric, rows without a
\* price dropped, sorted by ticker and date.
price_history_frame(data) ==
    LET numeric == [i \in 1..Len(data) |->
                       [data[i] EXCEPT !.stock_price = to_numeric(@)]]
        kept == SelectSeq(numeric, LAMBDA r : r.stock_price.k # "nan")
    IN  SortSeq(kept, LAMBDA a, b :
                    \/ StrLess(a.ticker_symbol, b.ticker_symbol)
                    \/ a.ticker_symbol = b.ticker_symbol /\ a.date < b.date)

\* load_historical_from_supabase on the merged rows of its own fetch;
\* queries has no fetch_historical_by_tickers, which the fallback calls.
load_historical_from_supabase(merged) ==
    IF merged = <<>> THEN [exc |-> "none", table |-> <<>>]
    ELSE LET data == historical_data_of(merged, 1)
         IN  IF data # <<>>
             THEN [exc |-> "none", table |-> price_history_frame(data)]
             ELSE [exc |-> "AttributeError", table |-> <<>>]

\* for record in records: if record.status == "not_calculable": ...
unavailable_requirements(recs) ==
    LET named == {recs[i].indicator : i \in {j \in 1..Len(recs) :
                                              recs[j].status = "not_calculable"}}
        last(n) == CHOOSE i \in 1..Len(recs) :
                      /\ recs[i].indicator = n /\ recs[i].status = "not_calculable"
                      /\ \A j \in (i + 1)..Len(recs) :
                            ~(recs[j].indicator = n /\ recs[j].status = "not_calculable")
    IN  [n \in named |-> recs[last(n)].missing_data]

\* Rows of the table stockanalysis_stocks as a fetch returns them.
PipeRow(ticker, price, stamp, history) ==
    [MkRow(ticker, price, Absent, Absent, Absent) EXCEPT !.scraped_at = stamp]
    @@ [price_history |-> history]

PipeRowVals ==
    {PipeRow(Str(TK), IntVal(3), Str(<<"1">>), Absent),
     PipeRow(Str(TK), Absent, Str(<<"1">>), Absent),
     PipeRow(Str(TK), Absent, Str(<<"2">>),
             PriceHistory(<<PriceEntry(IntVal(1), IntVal(2), Absent)>>)),
     PipeRow(Str(TK), IntVal(3), Str(<<"2">>),
             PriceHistory(<<PriceEntry(IntVal(3), IntVal(1), Absent),
                            PriceEntry(IntVal(2), Str(<<"x">>), Absent),
                            PriceEntry(IntVal(1), Absent, IntVal(2))>>)),
     PipeRow(None, IntVal(3), Str(<<"1">>), Absent),
     PipeRow(Str(TE), IntVal(3), Absent,
             PriceHistory(<<PriceEntry(IntVal(1), None, Absent)>>)),
     PipeRow(Str(TE), IntVal(3), None, PriceHistory(<<>>))}

FetchResults == SeqsUpTo(PipeRowVals, MaxFetch)

\* The indicators file of a run.
PipeFiles ==
    {<<>>,
     <<FileLine(<<>>, "Price and Volume", <<>>), FileLine(<<>>, "Stock Price", <<>>),
       FileLine(<<>>, "EBITDA", <<>>)>>}

PipeInit ==
    /\ granularity \in Granularities
    /\ pc = steps_of(granularity)[1]
    /\ raised = "none"
    /\ completed = <<>>
    /\ not_calculable = <<>>
    /\ report = "none"
    /\ requirements = INDICATOR_REQUIREMENTS
    /\ available = AVAILABLE_FIELD_HINTS
    /\ catalog = <<>> /\ records = <<>> /\ summary = <<>>
    /\ calculated = <<>> /\ insights = <<>>
    /\ CalcIdle /\ MergeIdle /\ ValidIdle /\ ParseIdle /\ RetryIdle /\ ExtractIdle

\* A step that is running: the run has not ended with an error.
At(step) == pc = step /\ raised = "none"

\* The step returned: the run goes to the next call.
Returns(step) ==
    /\ pc' = step_after(granularity, step)
    /\ completed' = Append(completed, step)
    /\ raised' = "none"

\* The step raised exc: no function of the runs catches it.
Raises(exc) == raised' = exc /\ UNCHANGED <<pc, completed>>

Outcome(step, exc) == IF exc = "none" THEN Returns(step) ELSE Raises(exc)

\* fetcher.fetch_daily_window: the rows, or the error of execute_with_retry
PipeFetch ==
    /\ At("fetch")
    /\ \/ \E fetched \in FetchResults : analysis_rows' = fetched /\ Returns("fetch")
       \/ analysis_rows' = analysis_rows /\ Raises("DatabaseConnectionError")
    /\ UNCHANGED <<calcVars, merged_rows, feasVars, validVars, classVars, parseVars,
                   retryVars, not_calculable, report, extractVars>>

PipeMerge ==
    /\ At("merge")
    /\ LET m == merge_current_data(analysis_rows)
       IN  merged_rows' = m.rows /\ Outcome("merge", m.exc)
    /\ UNCHANGED <<calcVars, analysis_rows, feasVars, validVars, classVars, parseVars,
                   retryVars, not_calculable, report, extractVars>>

PipeValidate ==
    /\ At("validate")
    /\ validation' = validate_merged_rows(merged_rows)
    /\ Outcome("validate", validation'.exc)
    /\ UNCHANGED <<calcVars, mergeVars, feasVars, batch, classVars, parseVars,
                   retryVars, not_calculable, report, extractVars>>

\* fetcher.load_historical_from_supabase: it fetches and merges again; the
\* second fetch returns the rows of the first, no row, or fails.
PipeLoadHistorical ==
    /\ At("load_historical")
    /\ \/ \E again \in {analysis_rows, <<>>} :
             LET m == merge_current_data(again)
                 h == load_historical_from_supabase(m.rows)
             IN  IF m.exc # "none"
                 THEN historical' = historical /\ Raises(m.exc)
                 ELSE historical' = h.table /\ Outcome("load_historical", h.exc)
       \/ historical' = historical /\ Raises("DatabaseConnectionError")
    /\ UNCHANGED <<rows, idx, outcome, results, mergeVars, feasVars, validVars,
                   classVars, parseVars, retryVars, not_calculable, report, extractVars>>

PipeCalculate ==
    /\ At("calculate")
    /\ LET b == calculate_batch(merged_rows, historical)
       IN  calculated' = b.rows /\ Outcome("calculate", b.exc)
    /\ UNCHANGED <<calcVars, mergeVars, feasVars, validVars, granularity, insights,
                   parseVars, retryVars, not_calculable, report, extractVars>>

\* parse_indicators(settings.indicators_file): read_text raises when the
\* file is missing
PipeParse ==
    /\ At("parse")
    /\ \/ \E file \in PipeFiles :
             /\ lines' = file /\ grouped' = grouped
             /\ catalog' = parse_indicators(file)
             /\ Returns("parse")
       \/ UNCHANGED <<lines, grouped, catalog>> /\ Raises("FileNotFoundError")
    /\ UNCHANGED <<calcVars, mergeVars, requirements, available, records, summary,
                   validVars, classVars, retryVars, not_calculable, report, extractVars>>

PipeAnalyze ==
    /\ At("analyze")
    /\ records' = analyze_feasibility(catalog)
    /\ Returns("analyze")
    /\ UNCHANGED <<calcVars, mergeVars, requirements, available, catalog, summary,
                   validVars, classVars, parseVars, retryVars, not_calculable, report, extractVars>>

PipeSummarize ==
    /\ At("summarize")
    /\ summary' = summarize_feasibility(records)
    /\ Returns("summarize")
    /\ UNCHANGED <<calcVars, mergeVars, requirements, available, catalog, records,
                   validVars, classVars, parseVars, retryVars, not_calculable, report, extractVars>>

PipeUnavailable ==
    /\ At("unavailable")
    /\ not_calculable' = unavailable_requirements(records)
    /\ Returns("unavailable")
    /\ UNCHANGED <<calcVars, mergeVars, feasVars, validVars, classVars, parseVars,
                   retryVars, report, extractVars>>

PipeClassify ==
    /\ At("classify")
    /\ \E order \in sort_outcomes(change_values(calculated, granularity)) :
          insights' =
              CASE granularity = "daily" -> classify_market_insights(calculated, order)
                [] granularity = "weekly" ->
                      classify_weekly_market_insights(calculated, order)
                [] granularity = "monthly" ->
                      classify_monthly_market_insights(calculated, order)
    /\ Outcome("classify", insights'.exc)
    /\ UNCHANGED <<calcVars, mergeVars, feasVars, validVars, calculated, granularity,
                   parseVars, retryVars, not_calculable, report, extractVars>>

\* write_daily_report, write_weekly_report, write_monthly_report: the file is
\* written whole; or rendering or mkdir raises and no file is opened; or
\* write_text raises with the file opened and part of the text written.
PipeWrite ==
    /\ At("write")
    /\ \/ report' = "full" /\ Returns("write")
       \/ report' = report /\ Raises("ReportGenerationError")
       \/ report' = "partial" /\ Raises("ReportGenerationError")
    /\ UNCHANGED <<calcVars, mergeVars, feasVars, validVars, classVars, parseVars,
                   retryVars, not_calculable, extractVars>>

PipeNext ==
    \/ PipeFetch \/ PipeMerge \/ PipeValidate \/ PipeLoadHistorical \/ PipeCalculate
    \/ PipeParse \/ PipeAnalyze \/ PipeSummarize \/ PipeUnavailable \/ PipeClassify
    \/ PipeWrite

PipeSpec == PipeInit /\ [][PipeNext]_vars

\* The claims' notions: the steps of a daily run that come before the report
\* is written, and a merged batch without a valid row.
StepsBeforeReport ==
    <<"fetch", "merge", "validate", "load_historical", "calculate", "parse",
      "analyze", "summarize", "unavailable", "classify">>
DailyRun == granularity = "daily"
ReportWritten == report # "none"

\* C12: in a daily run a report file, partial or full, exists only once
\* fetch, merge, validation, historical load, calculation, feasibility
\* analysis and classification have all returned, in this order; a run that
\* ended with the error of one of these steps has written no report.
C12_ReportOnlyAfterAllSteps ==
    DailyRun =>
        /\ ReportWritten =>
              /\ Len(completed) >= Len(StepsBeforeReport)
              /\ \A i \in 1..Len(StepsBeforeReport) : completed[i] = StepsBeforeReport[i]
        /\ (raised # "none" /\ pc # "write") => ~ReportWritten
        /\ pc = "done" => report = "full" /\ raised = "none"

\* C12 witness: a daily run whose validation raised DataValidationError after
\* fetch and merge returned, with no report written.
C12_Witness ==
    /\ granularity = "daily"
    /\ pc = "validate"
    /\ raised = "DataValidationError"
    /\ completed = <<"fetch", "merge">>
    /\ merged_rows # <<>>
    /\ report = "none"

ZeroValidRows(rs) == \A i \in 1..Len(rs) : ~ValidRow(rs[i])

\* C13: in a daily, weekly or monthly run whose merged batch has no valid row
\* no report is written: the run ends with an error before the report.
C13_ZeroValidRowsIsFatal ==
    ("merge" \in {completed[i] : i \in 1..Len(completed)} /\ ZeroValidRows(merged_rows))
        => /\ ~ReportWritten
           /\ pc # "done"

(***************************************************************************)
(* Isolation of the tickers, read off the calculate_batch steps.           *)
(***************************************************************************)
\* The historical table without the points of the other tickers.
OwnPoints(row, hist) == SelectSeq(hist, LAMBDA r : r.ticker_symbol = ticker_of(row))

\* C17: the outcome of calculate_for_row for a row is the outcome it has on
\* the table cut down to the points of the row's own ticker (all points of
\* other tickers removed), and calculate_batch on the rows in reverse order
\* returns the same computed rows in reverse order.
C17_OutcomeOfOwnRowAndPointsOnly ==
    /\ Called => outcome = calculate_for_row(LastRow, OwnPoints(LastRow, historical))
    /\ pc = "returned" =>
          calculate_batch(Reverse(rows), historical) =
              [exc |-> "none", rows |-> Reverse(results)]

(***************************************************************************)
(* The summary validate_merged_rows returns.                               *)
(***************************************************************************)
\* The claim's notions: a value that is None, "" or "nan", and the rows of
\* the batch by what they lack.
IsMissing(v) == v.k \in {"absent", "none"} \/ v = Str(<<>>) \/ v = Str(<<"n", "a", "n">>)
RowsLackingTicker == {i \in 1..Len(rows) : IsMissing(rows[i].ticker_symbol)}
RowsLackingPriceOnly ==
    {i \in 1..Len(rows) : ~IsMissing(rows[i].ticker_symbol) /\ IsMissing(rows[i].stock_price)}
SummaryReturned == Validated /\ validation.exc = "none"

\* C21: in a summary validate_merged_rows returns, valid_rows + invalid_rows
\* = total_rows; invalid_rows = missing_ticker + missing_price, a row lacking
\* both being counted as missing_ticker only; completeness_ratio is
\* valid_rows / total_rows, within [0, 1], 1 when every row has a ticker and a
\* price, and 0 for the empty batch.
C21_SummaryCountsAddUp ==
    SummaryReturned =>
        LET s == validation.summary
        IN  /\ s.total_rows = Len(rows)
            /\ s.valid_rows + s.invalid_rows = s.total_rows
            /\ s.invalid_rows = s.missing_ticker + s.missing_price
            /\ s.missing_ticker = Cardinality(RowsLackingTicker)
            /\ s.missing_price = Cardinality(RowsLackingPriceOnly)
            /\ RLeq(IntVal(0), s.completeness_ratio)
            /\ RLeq(s.completeness_ratio, IntVal(1))
            /\ rows # <<>> =>
                  s.completeness_ratio = RDiv(IntVal(s.valid_rows), IntVal(s.total_rows))
            /\ (rows # <<>> /\ \A i \in 1..Len(rows) : ValidRow(rows[i])) =>
                  s.completeness_ratio = IntVal(1)
            /\ rows = <<>> => s.completeness_ratio = IntVal(0)

\* C21 witness: a summary of two rows, one valid and one lacking both the
\* ticker and the price, which is counted as missing_ticker only.
C21_Witness ==
    /\ SummaryReturned
    /\ Len(rows) = 2
    /\ \E i \in 1..2 : IsMissing(rows[i].ticker_symbol) /\ IsMissing(rows[i].stock_price)
    /\ validation.summary.missing_ticker = 1
    /\ validation.summary.missing_price = 0
    /\ validation.summary.completeness_ratio = Num(1, 2)

(***************************************************************************)
(* The category map build_indicator_map returns.                           *)
(***************************************************************************)
Mapped == pc = "mapped"
CategoriesOf(defs) == {defs[i].category : i \in 1..Len(defs)}
NamesOf(defs, category) ==
    LET of_category == SelectSeq(defs, LAMBDA ind : ind.category = category)
    IN  [i \in 1..Len(of_category) |-> of_category[i].name]

\* C22: the keys of build_indicator_map are exactly the categories that have
\* a definition; the list of a key holds the names of the definitions of that
\* category in parse order, duplicates kept; the lengths of the lists sum to
\* the number of definitions.
C22_MapPartitionsByCategory ==
    Mapped =>
        /\ DOMAIN grouped = CategoriesOf(catalog)
        /\ \A c \in DOMAIN grouped : grouped[c] = NamesOf(catalog, c)
        /\ SumOver([c \in DOMAIN grouped |-> Len(grouped[c])], DOMAIN grouped)
              = Len(catalog)

\* C22 witness: a name parsed twice under one section header is kept twice in
\* the list of that category.
C22_Witness ==
    /\ Mapped
    /\ Len(catalog) = 2
    /\ DOMAIN grouped = {"Price and Volume"}
    /\ grouped["Price and Volume"] = <<"Volume", "Volume">>

(***************************************************************************)
(* The change fields of a returned row, stated on the row and the points   *)
(* of its ticker.                                                          *)
(***************************************************************************)
\* The numeric prices of the returned row's ticker in date order, and the
\* change of the latest of them against the one `back` points back.
OwnPrices ==
    history_prices_of(history_of(outcome.metrics.ticker_symbol.s, historical))
ChangeOver(back) ==
    XMul(XSub(XDiv(OwnPrices[Len(OwnPrices)], OwnPrices[Len(OwnPrices) - back + 1]),
              IntVal(1)),
         IntVal(100))

\* The value of the primary method: "none" when stock_change is not numeric.
ChangeOfRow == to_float(Get(LastRow.stock_change))
PrimaryChange ==
    LET latest == outcome.metrics.stock_price
        previous == XSub(latest, ChangeOfRow)
    IN  IF ChangeOfRow.k # "num" THEN None
        ELSE IF XPositive(previous)
        THEN XMul(XDiv(ChangeOfRow, previous), IntVal(100))
        ELSE IF RLess(IntVal(0 - 1), RMul(ChangeOfRow, IntVal(10000)))
                /\ RLess(RMul(ChangeOfRow, IntVal(10000)), IntVal(1))
        THEN IntVal(0)
        ELSE None

\* C23: price_change_1d_pct of a returned row is the value of the primary
\* method (change / (latest - change) * 100 when latest - change > 0, else 0
\* when |change| < 1e-4, else null) when that value is not null; otherwise
\* the change of the last two historical prices when the ticker has at least
\* 2 points; otherwise null when stock_change is given and absent when not.
C23_OneDayChangePrimaryThenHistory ==
    Returned =>
        outcome.metrics.price_change_1d_pct =
            IF ~IsNone(PrimaryChange) THEN PrimaryChange
            ELSE IF Len(OwnPrices) >= 2 THEN ChangeOver(2)
            ELSE IF ChangeOfRow.k = "num" THEN None
            ELSE Absent

\* C23 witness: stock_change equals the latest price, so latest - change is 0
\* and the primary value is null; the value of the row comes from the last
\* two of the ticker's points.
C23_Witness ==
    /\ Returned
    /\ ChangeOfRow = IntVal(3)
    /\ outcome.metrics.stock_price = IntVal(3)
    /\ Len(OwnPrices) >= 2
    /\ OwnPrices[Len(OwnPrices)] # OwnPrices[Len(OwnPrices) - 1]
    /\ outcome.metrics.price_change_1d_pct.k = "num"

\* C24: in a returned row price_change_1w_pct is present iff the ticker has
\* at least 5 points and is then (last price / the price 5 points back - 1)
\* * 100; price_change_1m_pct is present iff the ticker has at least 22
\* points and is then the same with a lookback of 22.
C24_WeekAndMonthChange ==
    Returned =>
        /\ Present("price_change_1w_pct") <=> Len(OwnPrices) >= 5
        /\ Present("price_change_1m_pct") <=> Len(OwnPrices) >= 22
        /\ Len(OwnPrices) >= 5 => outcome.metrics.price_change_1w_pct = ChangeOver(5)
        /\ Len(OwnPrices) >= 22 => outcome.metrics.price_change_1m_pct = ChangeOver(22)

\* C24 witness: a returned row of a ticker with at least 5 and fewer than 22
\* points, the weekly change a number other than 0 and the monthly change
\* absent.
C24_Witness ==
    /\ Returned
    /\ Len(OwnPrices) >= 5 /\ Len(OwnPrices) < 22
    /\ outcome.metrics.price_change_1w_pct.k = "num"
    /\ outcome.metrics.price_change_1w_pct # IntVal(0)
    /\ ~Present("price_change_1m_pct")

\* C25: in a returned row return_cagr is present iff the ticker has at least
\* 252 points and the oldest price is > 0; it is then (newest / oldest) to
\* the power 1 / years, minus 1, with years the number of points over 252.
C25_CagrIffYearOfHistory ==
    Returned =>
        LET points == Len(OwnPrices)
            gate == points >= 252 /\ XPositive(OwnPrices[1])
        IN  /\ Present("return_cagr") <=> gate
            /\ gate =>
                  /\ outcome.metrics.return_cagr.k = "cagr"
                  /\ Num(outcome.metrics.return_cagr.n, outcome.metrics.return_cagr.d)
                        = RDiv(OwnPrices[points], OwnPrices[1])
                  /\ outcome.metrics.return_cagr.s = DecimalDigits(points)

\* C25 witness: a returned row of a ticker with exactly 252 points, the
\* newest price other than the oldest.
C25_Witness ==
    /\ Returned
    /\ Len(OwnPrices) = 252
    /\ Present("return_cagr")
    /\ outcome.metrics.return_cagr.n # outcome.metrics.return_cagr.d

(***************************************************************************)
(* indicators/calculator.py: the nested fields of calculate_for_row,       *)
(* _extract_metric and _norm_key.                                          *)
(***************************************************************************)
UpperCase ==
    <<"A", "B", "C", "D", "E", "F", "G", "H", "I", "J", "K", "L", "M", "N",
      "O", "P", "Q", "R", "S", "T", "U", "V", "W", "X", "Y", "Z">>
LowerCase ==
    <<"a", "b", "c", "d", "e", "f", "g", "h", "i", "j", "k", "l", "m", "n",
      "o", "p", "q", "r", "s", "t", "u", "v", "w", "x", "y", "z">>

\* ch.lower() and ch.isalnum() on the ASCII characters.
LowerOf(ch) ==
    IF \E i \in 1..26 : UpperCase[i] = ch
    THEN LowerCase[CHOOSE i \in 1..26 : UpperCase[i] = ch]
    ELSE ch
IsAlnum(ch) == IsDigit(ch) \/ \E i \in 1..26 : ch \in {UpperCase[i], LowerCase[i]}

\* "".join(ch for ch in value.lower() if ch.isalnum())
norm_key(value) == SelectSeq([i \in 1..Len(value) |-> LowerOf(value[i])], IsAlnum)

\* A dict as the list of its items in insertion order.
Item(key, value) == [key |-> key, value |-> value]
Dict(items) == [k |-> "dict", items |-> items]

\* payload.get(key)
payload_get(payload, key) ==
    IF \E i \in 1..Len(payload) : payload[i].key = key
    THEN payload[CHOOSE i \in 1..Len(payload) : payload[i].key = key].value
    ELSE None

\* normalized = {_norm_key(k): v for k, v in payload.items()}, then
\* normalized.get(key): of the items whose keys normalize alike the last one
\* stays in the dict.
normalized_get(payload, key) ==
    LET alike == {i \in 1..Len(payload) : norm_key(payload[i].key) = key}
    IN  IF alike = {} THEN None
        ELSE payload[CHOOSE i \in alike : \A j \in alike : j <= i].value

RECURSIVE extract_loop_exact_only(_, _, _)
\* extract_loop without the lookup in normalized.
extract_loop_exact_only(payload, keys, i) ==
    IF i > Len(keys) THEN None
    ELSE LET direct == payload_get(payload, keys[i])
         IN  IF ~IsNone(direct) THEN direct
             ELSE extract_loop_exact_only(payload, keys, i + 1)

RECURSIVE extract_loop(_, _, _)
\* for key in keys: the direct value, else the normalized one, if not None
extract_loop(payload, keys, i) ==
    IF i > Len(keys) THEN None
    ELSE LET direct == payload_get(payload, keys[i])
             candidate == normalized_get(payload, norm_key(keys[i]))
         IN  IF ~IsNone(direct) THEN direct
             ELSE IF ~IsNone(candidate) THEN candidate
             ELSE extract_loop(payload, keys, i + 1)

extract_metric(payload, keys) == extract_loop(payload, keys, 1)

\* row[name] if isinstance(row.get(name), dict) else {}
sub_mapping(value) == IF value.k = "dict" THEN value.items ELSE <<>>

\* The aliases of two of the nested fields, as calculate_for_row lists them.
FIELD_ALIASES ==
    [market_cap |-> <<<<"m", "a", "r", "k", "e", "t", "C", "a", "p">>, <<"m", "a", "r", "k", "e", "t", "_", "c", "a", "p">>, 
       <<"M", "a", "r", "k", "e", "t", " ", "C", "a", "p">>>>,
     week_52_low |-> <<<<"l", "o", "w", "5", "2">>, 
       <<"5", "2", " ", "W", "e", "e", "k", " ", "L", "o", "w">>, 
       <<"5", "2", "_", "w", "e", "e", "k", "_", "l", "o", "w">>>>]

\* Keys of a sub-mapping: the aliases, keys that match one only after
\* normalization, and a key that matches none.
PayloadKeys ==
    {<<"m", "a", "r", "k", "e", "t", "C", "a", "p">>, 
     <<"m", "a", "r", "k", "e", "t", "_", "c", "a", "p">>, 
     <<"M", "a", "r", "k", "e", "t", " ", "C", "a", "p">>, 
     <<"M", "A", "R", "K", "E", "T", " ", "C", "A", "P">>, 
     <<"m", "c", "a", "p">>,
     <<"l", "o", "w", "5", "2">>, 
     <<"5", "2", " ", "W", "e", "e", "k", " ", "L", "o", "w">>, 
     <<"5", "2", "_", "w", "e", "e", "k", "_", "l", "o", "w">>, 
     <<"L", "O", "W", "5", "2">>, 
     <<"5", "2", "W", "e", "e", "k", "L", "o", "w">>}
PayloadValues == {None, IntVal(0), IntVal(7)}
RECURSIVE Payloads(_)
\* The dicts of at most n items.
Payloads(n) ==
    IF n = 0 THEN {<<>>}
    ELSE LET shorter == Payloads(n - 1)
         IN  shorter \cup
             {Append(p, Item(key, v)) :
                 p \in {q \in shorter : Len(q) = n - 1},
                 key \in PayloadKeys, v \in PayloadValues}
NestedVals ==
    {Absent, None, Str(<<"x">>)}
    \cup {Dict(p) : p \in {q \in Payloads(MaxPayload) :
                            \A i, j \in 1..Len(q) : i # j => q[i].key # q[j].key}}

ExtractInit ==
    /\ pc = "extract"
    /\ nested \in NestedVals
    /\ field \in DOMAIN FIELD_ALIASES
    /\ extracted = <<>>
    /\ raised = "none"
    /\ CalcIdle /\ MergeIdle /\ FeasIdle /\ ValidIdle /\ ClassIdle /\ ParseIdle
    /\ RetryIdle /\ PipeIdle

\* metrics[field] = _extract_metric(sub_mapping, aliases)
Extract ==
    /\ pc = "extract"
    /\ extracted' = extract_metric(sub_mapping(nested), FIELD_ALIASES[field])
    /\ pc' = "extracted"
    /\ UNCHANGED <<raised, calcVars, mergeVars, feasVars, validVars, classVars, parseVars,
                   retryVars, pipeVars, nested, field>>

ExtractNext == Extract

ExtractSpec == ExtractInit /\ [][ExtractNext]_vars

\* The claim's notions: the items whose key matches an alias exactly or
\* after normalization and whose value is not null.
Extracted == pc = "extracted"
Payload == sub_mapping(nested)
ExactMatches(alias) ==
    {i \in 1..Len(Payload) : Payload[i].key = alias /\ ~IsNone(Payload[i].value)}
NormalizedMatches(alias) ==
    {i \in 1..Len(Payload) :
        norm_key(Payload[i].key) = norm_key(alias) /\ ~IsNone(Payload[i].value)}
Matching(alias) == ExactMatches(alias) \cup NormalizedMatches(alias)
Aliases == FIELD_ALIASES[field]
FirstMatchingAlias ==
    Aliases[CHOOSE a \in 1..Len(Aliases) :
                /\ Matching(Aliases[a]) # {}
                /\ \A b \in 1..(a - 1) : Matching(Aliases[b]) = {}]

\* C26: the extraction returns a non-null value whenever the sub-mapping
\* holds a non-null value under a key that matches an alias of the field
\* exactly or after normalization; the value is that of the first alias in
\* list order with such a match, an exact match before a normalized one; it
\* returns null, without an error, when the sub-mapping is absent or no
\* mapping or when no key matches.
C26_FirstMatchingAliasWins ==
    Extracted =>
        /\ raised = "none"
        /\ IF \E a \in 1..Len(Aliases) : Matching(Aliases[a]) # {}
           THEN /\ ~IsNone(extracted)
                /\ IF ExactMatches(FirstMatchingAlias) # {}
                   THEN \E i \in ExactMatches(FirstMatchingAlias) :
                            extracted = Payload[i].value
                   ELSE \E i \in NormalizedMatches(FirstMatchingAlias) :
                            extracted = Payload[i].value
           ELSE IsNone(extracted)

(***************************************************************************)
(* The table load_historical_from_supabase hands to the run.               *)
(***************************************************************************)
Loaded == \E i \in 1..Len(completed) : completed[i] = "load_historical"

\* C27: with latest rows at hand load_historical_from_supabase returns a
\* table, from the price_history entries or else from the historical fetch by
\* ticker, so the fallback path ends in no error of its own; in the returned
\* table every price is a number and the rows of a ticker are in ascending
\* date order.
C27_HistoricalTableFromEitherPath ==
    /\ pc = "load_historical" => raised # "AttributeError"
    /\ Loaded =>
          /\ \A i \in 1..Len(historical) : historical[i].stock_price.k = "num"
          /\ \A i, j \in 1..Len(historical) :
                (i < j /\ historical[i].ticker_symbol = historical[j].ticker_symbol)
                    => historical[i].date <= historical[j].date

\* C28: in a returned row the history-gated fields are nested: return_cagr
\* present => moving_average_200d present => moving_average_50d present =>
\* moving_average_20d and price_change_1m_pct present => rsi_14 present =>
\* price_change_1w_pct present => all_time_high, all_time_low and
\* distance_from_ath_pct present; moving_average_20d and price_change_1m_pct
\* are present together or absent together.
C28_GatedFieldsAreNested ==
    Returned =>
        /\ Present("return_cagr") => Present("moving_average_200d")
        /\ Present("moving_average_200d") => Present("moving_average_50d")
        /\ Present("moving_average_50d") =>
              Present("moving_average_20d") /\ Present("price_change_1m_pct")
        /\ Present("moving_average_20d") <=> Present("price_change_1m_pct")
        /\ Present("moving_average_20d") => Present("rsi_14")
        /\ Present("rsi_14") => Present("price_change_1w_pct")
        /\ Present("price_change_1w_pct") =>
              /\ Present("all_time_high") /\ Present("all_time_low")
              /\ Present("distance_from_ath_pct")

\* The claims' notions: the keys every computed row must carry, a name that
\* is usable text, and the name expected of the row computed last.
AlwaysKeys == {"ticker_symbol", "company_name", "stock_price", "stock_change", "market_cap"}
Named(v) == v.k = "str" /\ v.s # <<>>
ExpectedName ==
    IF Named(LastRow.company_name) THEN LastRow.company_name
    ELSE IF Named(LastRow.stock_name) THEN LastRow.stock_name
    ELSE outcome.metrics.ticker_symbol
BatchReturned == pc = "returned"

\* C29: every row calculate_batch returns has the keys ticker_symbol,
\* company_name, stock_price, stock_change and market_cap; its ticker_symbol
\* is a non-empty string, its stock_price and its company_name are not None
\* (a float nan is a value, not None), and company_name is the row's
\* company_name, else its stock_name, else the ticker; so each of the daily,
\* weekly and monthly classifiers, given the returned list, empty or not,
\* returns a summary with a market trend and raises no KeyError.
C29_ReturnedRowsFeedTheClassifiers ==
    /\ Returned =>
          /\ results # <<>> /\ results[Len(results)] = outcome.metrics
          /\ outcome.metrics.company_name = ExpectedName
    /\ \A i \in 1..Len(results) :
          /\ \A key \in AlwaysKeys : results[i][key].k # "absent"
          /\ Named(results[i].ticker_symbol)
          /\ ~IsNone(results[i].stock_price)
          /\ ~IsNone(results[i].company_name)
    /\ BatchReturned =>
          \A kind \in Granularities :
             \A order \in sort_outcomes(change_values(results, kind)) :
                LET s == classify_insights(results, kind, order)
                IN  /\ s.exc = "none"
                    /\ s.market_trend \in {"insufficient_data", "bullish", "bearish", "flat"}
                    /\ (s.market_trend = "insufficient_data") <=> (results = <<>>)

\* C29 witness: calculate_batch has returned a row whose input had neither a
\* company name nor a stock name, so that the ticker stands as its name.
C29_Witness ==
    /\ BatchReturned
    /\ Returned
    /\ ~Named(LastRow.company_name) /\ ~Named(LastRow.stock_name)
    /\ outcome.metrics.company_name = outcome.metrics.ticker_symbol
    /\ \E order \in sort_outcomes(change_values(results, "monthly")) :
          Len(classify_insights(results, "monthly", order).top_gainers) = Len(results)

\* The claims' notions: the N of the granularity, the rows of a list as a
\* set, and the rows no other row ranks below.
ListSize ==
    CASE granularity = "daily" -> 5
      [] granularity = "weekly" -> 10
      [] granularity = "monthly" -> 15
RowSet(shown) == {RowsShown(shown)[k] : k \in 1..Len(shown)}
RanksLast(i) == \A j \in 1..Len(calculated) : ~RanksAbove(i, j)
RanksFirst(i) == \A j \in 1..Len(calculated) : ~RanksAbove(j, i)

\* C30: when a non-empty batch has at most N rows (5 daily, 10 weekly, 15
\* monthly), top_gainers and top_losers are the same list, holding every row
\* of the batch once in descending order of change: the best gainer is among
\* the losers and the last entry of top_losers is the worst loser; when the
\* batch has at least 2N rows, no row is in both lists.
C30_SmallBatchListsCoincide ==
    (Classified /\ calculated # <<>>) =>
        LET n == Len(calculated)
            g == RowsShown(insights.top_gainers)
            l == RowsShown(insights.top_losers)
        IN  /\ n <= ListSize =>
                  /\ insights.top_gainers = insights.top_losers
                  /\ Len(g) = n /\ RowSet(insights.top_gainers) = 1..n
                  /\ \A a, b \in 1..n : a < b => ~RanksAbove(g[b], g[a])
                  /\ RanksFirst(g[1]) /\ g[1] \in RowSet(insights.top_losers)
                  /\ RanksLast(l[Len(l)])
            /\ n >= 2 * ListSize =>
                  /\ Len(g) = ListSize /\ Len(l) = ListSize
                  /\ RowSet(insights.top_gainers) \cap RowSet(insights.top_losers) = {}

\* C30 witness: a weekly batch of nine rows with a gain and a loss, all nine
\* listed both as gainers and as losers.
C30_Witness ==
    /\ Classified
    /\ granularity = "weekly"
    /\ Len(calculated) = 9
    /\ \E i, j \in 1..9 : RanksAbove(i, j)
    /\ Len(insights.top_gainers) = 9
    /\ insights.top_losers = insights.top_gainers
====
